---- MODULE Spec2Model ----
(***************************************************************************)
(* Model of the deployment pipeline of the LLM Code Deployment API:        *)
(* deploy (app.py) sequencing validate_request / verify_secret             *)
(* (validator.py), generate_app_code (code_generator.py),                  *)
(* create_and_deploy_repo (github_manager.py) and notify_evaluation_api    *)
(* (evaluator.py).                                                         *)
(*                                                                         *)
(* Python strings are sequences of one-character strings, so that          *)
(* in, split, startswith and len are computed and not assumed.             *)
(* JSON values are records [t, s, n, l, d] tagged by their Python type.    *)
(***************************************************************************)
EXTENDS Integers, Sequences, FiniteSets, TLC

-----------------------------------------------------------------------------
(* Bounds of the model *)

\* longest attachment list drawn for a request
MaxAttachments == 2

\* longest checks list drawn for a request
MaxChecks == 2

-----------------------------------------------------------------------------
(* Python values *)

NoDict == [k \in {} |-> 0]

JNull == [t |-> "null", s |-> <<>>, n |-> 0, l |-> <<>>, d |-> NoDict]

JStr(chars) == [t |-> "str", s |-> chars, n |-> 0, l |-> <<>>, d |-> NoDict]

JInt(i) == [t |-> "int", s |-> <<>>, n |-> i, l |-> <<>>, d |-> NoDict]

\* bool is a subclass of int in Python: True == 1, False == 0
JBool(b) == [t |-> "bool", s |-> <<>>, n |-> IF b THEN 1 ELSE 0, l |-> <<>>, d |-> NoDict]

JList(items) == [t |-> "list", s |-> <<>>, n |-> 0, l |-> items, d |-> NoDict]

JDict(map) == [t |-> "dict", s |-> <<>>, n |-> 0, l |-> <<>>, d |-> map]

\* a request body that is not JSON: request.get_json() raises on it
JUnparseable == [t |-> "unparseable", s |-> <<>>, n |-> 0, l |-> <<>>, d |-> NoDict]

\* bool(v): what the tests of payload and of expected_secret evaluate
Truthy(v) ==
    CASE v.t = "null" -> FALSE
      [] v.t = "str"  -> Len(v.s) > 0
      [] v.t = "int"  -> v.n # 0
      [] v.t = "bool" -> v.n # 0
      [] v.t = "list" -> Len(v.l) > 0
      [] v.t = "dict" -> DOMAIN v.d # {}
      [] OTHER -> FALSE

\* isinstance(v, str), isinstance(v, int), isinstance(v, list), isinstance(v, dict)
IsStr(v) == v.t = "str"

IsInt(v) == v.t \in {"int", "bool"}

IsList(v) == v.t = "list"

IsDict(v) == v.t = "dict"

\* a == b for a string b: only an equal string compares equal
PyEq(a, b) == a.t = b.t /\ a = b

\* c in s, for a one-character c and a string s
Contains(chars, c) == \E i \in DOMAIN chars : chars[i] = c

\* s.split(c)[-1]: what follows the last c, the whole string when there is none
LastPart(chars, c) ==
    LET hits == {i \in DOMAIN chars : chars[i] = c}
        from == IF hits = {} THEN 0 ELSE CHOOSE i \in hits : \A j \in hits : j <= i
    IN  SubSeq(chars, from + 1, Len(chars))

\* s.startswith(prefix)
StartsWith(chars, prefix) ==
    /\ Len(chars) >= Len(prefix)
    /\ SubSeq(chars, 1, Len(prefix)) = prefix

\* sep.join(parts) for a list of field names, as the pieces of the joined text
RECURSIVE Join(_, _)
Join(parts, sep) ==
    IF Len(parts) = 0 THEN <<>>
    ELSE IF Len(parts) = 1 THEN <<parts[1]>>
    ELSE <<parts[1], sep>> \o Join(Tail(parts), sep)

-----------------------------------------------------------------------------
(* validator.py *)

required_fields == <<"email", "secret", "task", "round", "nonce", "brief", "evaluation_url">>

Returned(ok, msg) == [exc |-> "", is_valid |-> ok, error_message |-> msg]

\* an exception leaving the function: its class and str(e)
Raised(e, text) == [exc |-> e, is_valid |-> FALSE, error_message |-> text]

\* type(v).__name__
TypeName(v) == IF v.t = "null" THEN "NoneType" ELSE v.t

\* missing_fields reporting the first missing field alone
first_missing_field(p) ==
    SubSeq(SelectSeq(required_fields, LAMBDA f : f \notin DOMAIN p), 1, 1)

\* [field for field in required_fields if field not in payload]
missing_fields(p) == SelectSeq(required_fields, LAMBDA f : f \notin DOMAIN p)

\* the email test looking for the '@' alone
EmailCheckAtOnly(email) ==
    CASE email.t = "str" -> IF ~Contains(email.s, "@") THEN "bad" ELSE "ok"
      [] email.t = "list" ->
            IF ~(\E i \in DOMAIN email.l : PyEq(email.l[i], JStr(<<"@">>)))
            THEN "bad" ELSE "ok"
      [] email.t = "dict" -> IF "@" \notin DOMAIN email.d THEN "bad" ELSE "ok"
      [] OTHER -> "TypeError"

\* '@' not in email or '.' not in email.split('@')[-1]
\* "bad", "ok", or the exception the expression raises
EmailCheck(email) ==
    CASE email.t = "str" ->
            IF ~Contains(email.s, "@") \/ ~Contains(LastPart(email.s, "@"), ".")
            THEN "bad" ELSE "ok"
      [] email.t = "list" ->
            IF ~(\E i \in DOMAIN email.l : PyEq(email.l[i], JStr(<<"@">>)))
            THEN "bad" ELSE "AttributeError"
      [] email.t = "dict" ->
            IF "@" \notin DOMAIN email.d THEN "bad" ELSE "AttributeError"
      [] OTHER -> "TypeError"

\* the first attachment the loop rejects, 0 when it rejects none
BadAttachment(atts) ==
    LET bad == {i \in DOMAIN atts :
                    \/ ~IsDict(atts[i])
                    \/ "name" \notin DOMAIN atts[i].d
                    \/ "url" \notin DOMAIN atts[i].d}
    IN  IF bad = {} THEN 0 ELSE CHOOSE i \in bad : \A j \in bad : i <= j

AttachmentsCheck(p) ==
    IF "attachments" \notin DOMAIN p THEN Returned(TRUE, <<>>)
    ELSE IF ~IsList(p["attachments"]) THEN Returned(FALSE, <<"Attachments must be a list">>)
    ELSE LET atts == p["attachments"].l
             i == BadAttachment(atts)
         IN  IF i = 0 THEN Returned(TRUE, <<>>)
             ELSE IF ~IsDict(atts[i])
             THEN Returned(FALSE, <<"Attachment ", ToString(i - 1), " must be a dictionary">>)
             ELSE Returned(FALSE, <<"Attachment ", ToString(i - 1),
                                    " must have 'name' and 'url' fields">>)

\* validate_request(payload) for a dict payload p
validate_request(p) ==
    IF missing_fields(p) # <<>>
    THEN Returned(FALSE, <<"Missing required fields: ">> \o Join(missing_fields(p), ", "))
    ELSE IF EmailCheck(p["email"]) = "TypeError"
    THEN Raised("TypeError", <<"argument of type '", TypeName(p["email"]), "' is not iterable">>)
    ELSE IF EmailCheck(p["email"]) = "AttributeError"
    THEN Raised("AttributeError",
                <<"'", TypeName(p["email"]), "' object has no attribute 'split'">>)
    ELSE IF EmailCheck(p["email"]) = "bad" THEN Returned(FALSE, <<"Invalid email format">>)
    ELSE IF ~IsInt(p["round"]) \/ p["round"].n < 1
    THEN Returned(FALSE, <<"Round must be a positive integer">>)
    ELSE IF ~IsStr(p["task"]) \/ Len(p["task"].s) = 0
    THEN Returned(FALSE, <<"Task must be a non-empty string">>)
    ELSE IF ~IsStr(p["nonce"]) \/ Len(p["nonce"].s) = 0
    THEN Returned(FALSE, <<"Nonce must be a non-empty string">>)
    ELSE IF ~IsStr(p["brief"]) \/ Len(p["brief"].s) = 0
    THEN Returned(FALSE, <<"Brief must be a non-empty string">>)
    ELSE IF ~IsStr(p["evaluation_url"])
            \/ ~StartsWith(p["evaluation_url"].s, <<"h", "t", "t", "p">>)
    THEN Returned(FALSE, <<"Evaluation URL must be a valid HTTP(S) URL">>)
    ELSE IF "checks" \in DOMAIN p /\ ~IsList(p["checks"])
    THEN Returned(FALSE, <<"Checks must be a list">>)
    ELSE AttachmentsCheck(p)

\* verify_secret without the test for a secret that is not configured
verify_secret_permissive(provided_secret, expected_secret) ==
    PyEq(provided_secret, expected_secret)

\* verify_secret(provided_secret, expected_secret)
verify_secret(provided_secret, expected_secret) ==
    IF ~Truthy(expected_secret) THEN FALSE
    ELSE IF PyEq(provided_secret, expected_secret) THEN TRUE
    ELSE FALSE

-----------------------------------------------------------------------------
(* Requests drawn by the model *)

EmailOk == JStr(<<"a", "@", "b", ".", "c">>)

SecretS == JStr(<<"S">>)

TaskClock == JStr(<<"C", "l", "o", "c", "k", " ", "A", "p", "p", "!">>)

BriefClk == JStr(<<"c", "l", "k">>)

UrlHttp == JStr(<<"h", "t", "t", "p", ":", "/", "/", "e">>)

CheckTitle == JStr(<<"h", "a", "s", " ", "t", "i", "t", "l", "e">>)

DataUri == <<"d", "a", "t", "a", ":", "t", "e", "x", "t", "/", "x", ";",
             "b", "a", "s", "e", "6", "4", ",", "Q", "Q", "=", "=">>

AttOk == JDict([name |-> JStr(<<"f">>), url |-> JStr(DataUri)])

AttHttp == JDict([name |-> JStr(<<"g">>), url |-> JStr(<<"h", "t", "t", "p", ":", "/", "/", "x">>)])

AttNoUrl == JDict([name |-> JStr(<<"f">>)])

\* an attachment whose data: URI carries the given base64 text
AttData(name, encoded) ==
    JDict([name |-> JStr(<<name>>),
           url |-> JStr(<<"d", "a", "t", "a", ":", "t", "e", "x", "t", "/", "x", ";",
                          "b", "a", "s", "e", "6", "4", ",">> \o encoded)])

SeqsUpTo(S, n) == UNION {[1..k -> S] : k \in 0..n}

\* the request of the end-to-end scenario
Base ==
    [email |-> EmailOk, secret |-> SecretS, task |-> TaskClock, round |-> JInt(1),
     nonce |-> JStr(<<"n", "1">>), brief |-> BriefClk, checks |-> JList(<<CheckTitle>>),
     evaluation_url |-> UrlHttp, attachments |-> JList(<<>>)]

Without(p, keys) == [k \in (DOMAIN p) \ keys |-> p[k]]

FieldValues(f) ==
    CASE f = "email" ->
            {JStr(<<"a", "b", ".", "c">>), JStr(<<"a", "@", "b", "c">>),
             JStr(<<"a", ".", "b", "@", "c">>), JStr(<<>>), JInt(5), JNull,
             JList(<<>>), JList(<<JStr(<<"@">>)>>), JDict([x \in {"@"} |-> JInt(1)])}
      [] f = "task" ->
            {JStr(<<"a", "_", "b">>), JStr(<<"-", "-">>), JStr(<<>>), JInt(3),
             JStr(<<"c", "a", "f", "e-acute">>),
             JStr([i \in 1..101 |-> IF i = 100 THEN "-" ELSE "a"])}
      [] f = "round" ->
            {JInt(2), JInt(0), JInt(-1), JBool(TRUE), JBool(FALSE), JStr(<<"1">>), JNull}
      [] f = "nonce" -> {JStr(<<>>), JInt(7)}
      [] f = "brief" -> {JStr(<<"a", "\n", "b">>), JStr(<<>>), JList(<<>>)}
      [] f = "evaluation_url" ->
            {JStr(<<"h", "t", "t", "p", "s", ":", "/", "/", "e">>),
             JStr(<<"f", "t", "p", ":", "/", "/", "e">>), JStr(<<>>), JInt(1)}
      [] f = "checks" ->
            {JList(l) : l \in SeqsUpTo({CheckTitle, JInt(1)}, MaxChecks)}
                \cup {JStr(<<"x">>), JNull}
      [] f = "attachments" ->
            {JList(l) : l \in SeqsUpTo({AttOk, AttHttp, AttNoUrl, JInt(1)}, MaxAttachments)}
                \cup {JList(<<AttData("u", <<"/", "w", "=", "=">>), AttOk>>),
                      JList(<<AttData("k", <<"Q", "Q", "=", "=">>), AttData("b", <<"Q">>),
                              AttOk>>)}
                \cup {JDict([name |-> JStr(<<"f">>), url |-> JStr(DataUri)]), JNull}

Secrets == {SecretS, JStr(<<"X">>), JStr(<<>>), JInt(1)}

VariedFields == {"email", "task", "round", "nonce", "brief", "evaluation_url",
                 "checks", "attachments"}

\* the JSON bodies request.get_json() hands to deploy
Payloads ==
    {JDict(Without(Base, R)) : R \in SUBSET {required_fields[i] : i \in DOMAIN required_fields}}
    \cup {JDict(Without(Base, R)) : R \in (SUBSET {"checks", "attachments"}) \ {{}}}
    \cup UNION {{JDict([[Base EXCEPT ![f] = v] EXCEPT !["secret"] = s]) :
                    v \in FieldValues(f), s \in Secrets} : f \in VariedFields}
    \cup {JDict([Base EXCEPT !["checks"] = JList(<<JInt(1)>>),
                             !["attachments"] = JList(<<AttData("b", <<"Q">>), AttOk>>)])}
    \cup {JNull, JDict(NoDict), JList(<<>>), JList(<<JInt(1)>>), JStr(<<>>), JStr(<<"x">>),
          JInt(0), JInt(5), JBool(FALSE), JBool(TRUE), JUnparseable}

-----------------------------------------------------------------------------
(* Python text helpers *)

Min(S) == CHOOSE x \in S : \A y \in S : x <= y

\* text.find(sub, start): 0-based index of the first occurrence at or after start, else -1
Find(text, sub, start) ==
    LET hits == {i \in start..(Len(text) - Len(sub)) : SubSeq(text, i + 1, i + Len(sub)) = sub}
    IN  IF hits = {} THEN -1 ELSE Min(hits)

\* sub in text
Has(text, sub) == Find(text, sub, 0) # -1

\* a slice index i of a text of length n: negative counts from the end, then clamped
SliceIndex(i, n) ==
    IF i < 0 THEN (IF i + n < 0 THEN 0 ELSE i + n) ELSE IF i > n THEN n ELSE i

\* the characters at 0-based positions lo .. hi-1
Between(text, lo, hi) == IF lo >= hi THEN <<>> ELSE SubSeq(text, lo + 1, hi)

\* text[a:b] with Python's treatment of negative and out-of-range indices
Slice(text, a, b) == Between(text, SliceIndex(a, Len(text)), SliceIndex(b, Len(text)))

Whitespace == {" ", "\n", "\t", "\r"}

\* text.strip()
Strip(text) ==
    LET keep == {i \in DOMAIN text : text[i] \notin Whitespace}
    IN  IF keep = {} THEN <<>>
        ELSE SubSeq(text, Min(keep), CHOOSE i \in keep : \A j \in keep : j <= i)

\* str(v) as an f-string formats it
PyStr(v) ==
    CASE v.t = "str"  -> v.s
      [] v.t = "int"  -> <<ToString(v.n)>>
      [] v.t = "bool" -> IF v.n = 1 THEN <<"True">> ELSE <<"False">>
      [] v.t = "null" -> <<"None">>
      [] v.t = "list" -> <<"[", ToString(Len(v.l)), " items]">>
      [] OTHER        -> <<"{", ToString(Cardinality(DOMAIN v.d)), " items}">>

\* the concatenation of a list of texts
RECURSIVE Concat(_)
Concat(texts) == IF texts = <<>> THEN <<>> ELSE Head(texts) \o Concat(Tail(texts))

-----------------------------------------------------------------------------
(* code_generator.py *)

NoArtifact == [index_html |-> <<>>, README_md |-> <<>>]

NotDecoded == [some |-> FALSE, name |-> JNull, mime_type |-> <<>>, text |-> FALSE, size |-> 0]

\* base64.b64decode(encoded) succeeds: whole quads, or a last quad completed by padding
B64Ok(encoded) ==
    LET data == Len(SelectSeq(encoded, LAMBDA c : c # "="))
        pad == Len(SelectSeq(encoded, LAMBDA c : c = "="))
    IN  \/ data % 4 = 0
        \/ data % 4 = 2 /\ pad >= 2
        \/ data % 4 = 3 /\ pad >= 1

\* content.decode('utf-8') succeeds: a first byte 0xFC..0xFF (first digit '/') never does
Utf8Ok(encoded) == encoded = <<>> \/ encoded[1] # "/"

\* text.split(sep)[0]
FirstPart(text, sep) ==
    IF Has(text, <<sep>>) THEN Slice(text, 0, Find(text, <<sep>>, 0)) ELSE text

\* the number of bytes b64decode returns for an accepted text
B64Size(encoded) == (Len(SelectSeq(encoded, LAMBDA c : c # "=")) * 6) \div 8

\* code_generator.py 34-45: the decoded content, or None when a decoder raises
DecodeContent(name, mime_type, encoded, text) ==
    IF ~B64Ok(encoded) THEN NotDecoded
    ELSE IF text /\ ~Utf8Ok(encoded) THEN NotDecoded
    ELSE [some |-> TRUE, name |-> name, mime_type |-> mime_type, text |-> text,
          size |-> B64Size(encoded)]

\* code_generator.py 38: the MIME types whose content is decoded to a string
IsTextMime(mime_type) ==
    \/ StartsWith(mime_type, <<"t", "e", "x", "t", "/">>)
    \/ mime_type \in {<<"application/json">>, <<"application/javascript">>}

DecodeMime(name, mime_type, encoded) ==
    DecodeContent(name, mime_type, encoded, IsTextMime(mime_type))

\* code_generator.py 31-32: header.split(':')[1].split(';')[0]
DecodeHeader(name, header, encoded) ==
    DecodeMime(name,
               FirstPart(FirstPart(Slice(header, Find(header, <<":">>, 0) + 1, Len(header)),
                                   ":"), ";"),
               encoded)

\* code_generator.py 31: header, encoded = url.split(',', 1)
DecodeDataUri(name, url, comma) ==
    DecodeHeader(name, Slice(url, 0, comma), Slice(url, comma + 1, Len(url)))

DecodeUrl(name, url) ==
    IF ~IsStr(url) THEN NotDecoded
    ELSE IF ~StartsWith(url.s, <<"d", "a", "t", "a", ":">>) THEN NotDecoded
    ELSE IF ~Contains(url.s, ",") THEN NotDecoded
    ELSE DecodeDataUri(name, url.s, Find(url.s, <<",">>, 0))

\* decode_attachment(attachment): NotDecoded stands for None
decode_attachment(attachment) == DecodeUrl(attachment.d["name"], attachment.d["url"])

\* the loop of generate_app_code keeping what decode_attachment returned, None included
decoded_attachments_unfiltered(attachments) ==
    [i \in DOMAIN attachments |-> decode_attachment(attachments[i])]

\* the loop of generate_app_code 64-69: the decodable attachments, in order
decoded_attachments(attachments) ==
    SelectSeq([i \in DOMAIN attachments |-> decode_attachment(attachments[i])],
              LAMBDA a : a.some)

\* build_generation_prompt(brief, checks, attachments): the text sent to the backend
build_generation_prompt(brief, checks, attachments) ==
    <<"Generate ... BRIEF:\n">> \o brief.s
    \o (IF attachments = <<>> THEN <<>>
        ELSE <<"\n\nATTACHMENTS:\n">>
             \o Concat([i \in DOMAIN attachments |->
                           <<"- ">> \o PyStr(attachments[i].name) \o <<" (">>
                           \o attachments[i].mime_type \o <<")\n">>
                           \o (IF attachments[i].text /\ attachments[i].size < 1000
                               THEN <<"  Content: ", "content[:500]", "...\n">>
                               ELSE <<>>)]))
    \o (IF checks = <<>> THEN <<>>
        ELSE <<"\n\nVALIDATION CHECKS:\n">>
             \o Concat([i \in DOMAIN checks |->
                           (IF i = 1 THEN <<>> ELSE <<"\n">>)
                           \o <<"- ">> \o PyStr(checks[i])]))
    \o <<"REQUIREMENTS: ... OUTPUT FORMAT: ...">>

\* the backquote of a code fence (U+0060), under a name: written in a string it
\* would open a quotation for the lexer
Tick == "^"

FenceHtml == <<Tick, Tick, Tick, "h", "t", "m", "l">>

Fence == <<Tick, Tick, Tick>>

Doctype == <<"<", "!", "D", "O", "C", "T", "Y", "P", "E", " ", "h", "t", "m", "l", ">">>

CloseHtml == <<"<", "/", "h", "t", "m", "l", ">">>

FenceMarkdown == <<Tick, Tick, Tick, "m", "a", "r", "k", "d", "o", "w", "n">>

FenceMd == <<Tick, Tick, Tick, "m", "d">>

\* response_text[start:end].strip() with end = response_text.find(closer, start) + more
Extract(response_text, start, closer, more) ==
    Strip(Slice(response_text, start, Find(response_text, closer, start) + more))

\* ParseHtml taking the block from its opening fence, the tag included
ParseHtmlFromFence(response_text) ==
    IF Has(response_text, FenceHtml)
    THEN Extract(response_text, Find(response_text, FenceHtml, 0), Fence, 0)
    ELSE IF Has(response_text, Doctype)
    THEN Extract(response_text, Find(response_text, Doctype, 0), CloseHtml, 7)
    ELSE <<>>

\* code_generator.py 257-267
ParseHtml(response_text) ==
    IF Has(response_text, FenceHtml)
    THEN Extract(response_text, Find(response_text, FenceHtml, 0) + 7, Fence, 0)
    ELSE IF Has(response_text, Doctype)
    THEN Extract(response_text, Find(response_text, Doctype, 0), CloseHtml, 7)
    ELSE <<>>

\* response_text[start:end].strip() for the fenced block opened by marker
ExtractFenced(response_text, marker) ==
    Extract(response_text, Find(response_text, marker, 0) + Len(marker), Fence, 0)

\* code_generator.py 269-277
ParseReadme(response_text) ==
    IF (Has(response_text, <<"R", "E", "A", "D", "M", "E">>)
        \/ Has(response_text, <<"r", "e", "a", "d", "m", "e">>))
       /\ (Has(response_text, FenceMarkdown) \/ Has(response_text, FenceMd))
    THEN ExtractFenced(response_text,
                       IF Has(response_text, FenceMarkdown) THEN FenceMarkdown ELSE FenceMd)
    ELSE <<>>

\* parse_llm_response(response_text)
parse_llm_response(response_text) ==
    [index_html |-> ParseHtml(response_text), README_md |-> ParseReadme(response_text)]

Generated(code) == [exc |-> "", text |-> <<>>, code |-> code]

GenRaised(e, text) == [exc |-> e, text |-> text, code |-> NoArtifact]

\* generate_template_code(brief, checks, attachments): the concatenation of the
\* dash with a check raises on a check that is not a string
generate_template_code(brief, checks, attachments) ==
    IF \E i \in DOMAIN checks : ~IsStr(checks[i])
    THEN GenRaised("TypeError",
                   <<"can only concatenate str (not ",
                     TypeName(checks[Min({j \in DOMAIN checks : ~IsStr(checks[j])})]),
                     ") to str">>)
    ELSE Generated(
            [index_html |-> <<"<!DOCTYPE html>\n<html> ... <h5>Brief:</h5>\n<p>">>
                            \o brief.s \o <<"</p> ... </body>\n</html>">>,
             README_md |-> <<"# Generated Application\n\n## Overview\n ... brief:\n\n">>
                           \o brief.s \o <<"\n\n## Requirements\n">>
                           \o (IF checks = <<>> THEN <<"No specific checks provided.">>
                               ELSE Concat([i \in DOMAIN checks |->
                                       (IF i = 1 THEN <<>> ELSE <<"\n">>)
                                       \o <<"- ">> \o checks[i].s]))
                           \o <<"\n\n## Usage ... ## License\nMIT License\n">>])

\* what the generation backend answers to one POST
Reply(kind, code, text) == [kind |-> kind, code |-> code, text |-> text]

NoReply == Reply("none", 0, <<>>)

\* generate_with_aipipe(prompt), given the backend's reply
generate_with_aipipe(prompt, reply) ==
    CASE reply.kind = "timeout" -> GenRaised("Timeout", <<"Read timed out.">>)
      [] reply.kind = "status" ->
            GenRaised("Exception", <<"AI Pipeline API error: ", ToString(reply.code), " - ">>
                                   \o reply.text)
      [] reply.kind = "malformed" -> GenRaised("KeyError", <<"'choices'">>)
      [] OTHER -> Generated(parse_llm_response(reply.text))

\* generate_with_anthropic(prompt): the module never imports anthropic
generate_with_anthropic(prompt) ==
    GenRaised("NameError", <<"name 'anthropic' is not defined">>)

\* generate_with_openai(prompt): the module never imports OpenAI
generate_with_openai(prompt) ==
    GenRaised("NameError", <<"name 'OpenAI' is not defined">>)

\* the backend generate_app_code calls: the first configured key decides
ChosenBackend(aipipe, anthropic, openai) ==
    IF aipipe # <<>> THEN "aipipe"
    ELSE IF anthropic # <<>> THEN "anthropic"
    ELSE IF openai # <<>> THEN "openai"
    ELSE "template"

\* code_generator.py 75-87: the branch taken for the chosen backend
TryBackend(brief, checks, decoded, prompt, backend, reply) ==
    CASE backend = "aipipe" -> generate_with_aipipe(prompt, reply)
      [] backend = "anthropic" -> generate_with_anthropic(prompt)
      [] backend = "openai" -> generate_with_openai(prompt)
      [] OTHER -> generate_template_code(brief, checks, decoded)

\* the except clause returning an empty artifact in place of the template
OrEmpty(code, brief, checks, decoded) ==
    IF code.exc = "" THEN code ELSE Generated(NoArtifact)

\* code_generator.py 89-94: the except clause falls back to the template
OrTemplate(code, brief, checks, decoded) ==
    IF code.exc = "" THEN code ELSE generate_template_code(brief, checks, decoded)

GenerateFrom(brief, checks, decoded, backend, reply) ==
    OrTemplate(TryBackend(brief, checks, decoded,
                          build_generation_prompt(brief, checks, decoded), backend, reply),
               brief, checks, decoded)

\* generate_app_code(brief, checks, attachments), given the keys and the backend's reply
generate_app_code(brief, checks, attachments, aipipe, anthropic, openai, reply) ==
    GenerateFrom(brief, checks, decoded_attachments(attachments),
                 ChosenBackend(aipipe, anthropic, openai), reply)

ResponseTexts ==
    {<<Tick, Tick, Tick, "h", "t", "m", "l", "\n", "<", "h", "t", "m", "l", ">", "X", "<", "/", "h", "t", "m", "l", ">", "\n", Tick, Tick, Tick>>,
     <<"<", "!", "D", "O", "C", "T", "Y", "P", "E", " ", "h", "t", "m", "l", ">", "<", "h", "t", "m", "l", ">", "X", "<", "/", "h", "t", "m", "l", ">">>,
     <<"n", "o", " ", "m", "a", "r", "k", "u", "p">>,
     <<Tick, Tick, Tick, "h", "t", "m", "l", "\n", "<", "p", ">", "Y">>,
     <<"R", "E", "A", "D", "M", "E", "\n", Tick, Tick, Tick, "m", "d", "\n", "D", "o", "c", "\n", Tick, Tick, Tick>>}

\* the replies of the generation backend the model draws
BackendReplies ==
    {Reply("timeout", 0, <<>>), Reply("status", 500, <<"down">>), Reply("malformed", 200, <<>>)}
    \cup {Reply("ok", 200, x) : x \in ResponseTexts}

-----------------------------------------------------------------------------
(* github_manager.py *)

RepoNameCap == 100

\* a letter outside ASCII (U+00E9), under a name: one character of a task name
Accented == "e-acute"

AsciiAlnum ==
    {"a", "b", "c", "d", "e", "f", "g", "h", "i", "j", "k", "l", "m", "n", "o", "p", "q",
     "r", "s", "t", "u", "v", "w", "x", "y", "z",
     "A", "B", "C", "D", "E", "F", "G", "H", "I", "J", "K", "L", "M", "N", "O", "P", "Q",
     "R", "S", "T", "U", "V", "W", "X", "Y", "Z",
     "0", "1", "2", "3", "4", "5", "6", "7", "8", "9"}

\* c.isalnum(): true of the ASCII letters and digits and of those of every other script
Alnum == AsciiAlnum \cup {Accented}

\* text.strip('-')
StripHyphens(text) ==
    LET keep == {i \in DOMAIN text : text[i] # "-"}
    IN  IF keep = {} THEN <<>>
        ELSE SubSeq(text, Min(keep), CHOOSE i \in keep : \A j \in keep : j <= i)

\* github_manager.py 100-102
Capped(repo_name) ==
    IF Len(repo_name) > RepoNameCap THEN Slice(repo_name, 0, RepoNameCap) ELSE repo_name

\* github_manager.py 104-106
OrTimestamp(repo_name, now) ==
    IF repo_name = <<>> THEN <<"t", "a", "s", "k", "-">> \o now ELSE repo_name

\* sanitize_repo_name(task_name); now is utcnow() formatted %Y%m%d-%H%M%S
sanitize_repo_name(task_name, now) ==
    OrTimestamp(Capped(StripHyphens(SelectSeq(
                    [i \in DOMAIN task_name |->
                        IF task_name[i] \in {" ", "_"} THEN "-" ELSE task_name[i]],
                    LAMBDA c : c \in Alnum \/ c = "-"))),
                now)

\* generate_readme(brief, checks)
generate_readme(brief, checks) ==
    <<"# Generated Application\n\n## Summary\n ... **Brief:** ">> \o brief.s
    \o <<"\n\n## Features\n ... requirements:\n">>
    \o (IF checks = <<>> THEN <<"No specific checks.">>
        ELSE Concat([i \in DOMAIN checks |->
                (IF i = 1 THEN <<>> ELSE <<"\n">>) \o <<"- ">> \o PyStr(checks[i])]))
    \o <<"\n\n## Setup ... ## License\nMIT License ...">>

\* get_mit_license()
get_mit_license == <<"MIT License\n\nCopyright (c) ... SOFTWARE.\n">>

\* app_code.get('README.md', default)
GetReadme(app_code, default) ==
    IF "README_md" \in DOMAIN app_code THEN app_code.README_md ELSE default

NoFile == [written |-> FALSE, content |-> <<>>]

File(content) == [written |-> TRUE, content |-> content]

NoTree == [index_html |-> NoFile, README_md |-> NoFile, LICENSE |-> NoFile]

\* push_files_to_repo 149-165: the files written into the working tree
WorkingTree(app_code, brief, checks) ==
    [index_html |-> IF "index_html" \in DOMAIN app_code /\ app_code.index_html # <<>>
                    THEN File(app_code.index_html) ELSE NoFile,
     README_md |-> File(GetReadme(app_code, generate_readme(brief, checks))),
     LICENSE |-> File(get_mit_license)]

NoRepo == [name |-> <<>>, html_url |-> <<>>, description |-> <<>>]

NoRepoInfo == [repo_url |-> <<>>, commit_sha |-> <<>>, pages_url |-> <<>>]

\* the git steps of push_files_to_repo, in the order they run
GitSteps == <<"clone", "config", "add", "commit", "push", "rev-parse">>

\* f"https://{GITHUB_USERNAME}.github.io/{repo.name}/"
PagesUrl(username, name) ==
    <<"https://">> \o username \o <<".github.io/">> \o name \o <<"/">>

\* what the hosting provider answers to the pages request; 0 stands for a raised error
PagesReplies == {201, 204, 409, 422, 0}

\* no pages request was answered yet
NoPagesReply == -1

PagesResult(exc, pages_url) == [exc |-> exc, pages_url |-> pages_url]

\* enable_github_pages raising for a status it does not know and for a transport error
enable_github_pages_strict(username, name, reply) ==
    IF reply = 0
    THEN PagesResult("ConnectionError", <<>>)
    ELSE IF reply \in {201, 204}
    THEN PagesResult("", PagesUrl(username, name))
    ELSE IF reply = 409
    THEN PagesResult("", PagesUrl(username, name))
    ELSE PagesResult("HTTPError", <<>>)

\* enable_github_pages(repo), given the answer to the pages request
enable_github_pages(username, name, reply) ==
    IF reply = 0
    THEN PagesResult("", PagesUrl(username, name))
    ELSE IF reply \in {201, 204}
    THEN PagesResult("", PagesUrl(username, name))
    ELSE IF reply = 409
    THEN PagesResult("", PagesUrl(username, name))
    ELSE PagesResult("", PagesUrl(username, name))

\* the directories tempfile.mkdtemp may make
TempDirs == {<<"/tmp/tmp1">>, <<"/tmp/tmp2">>}

\* the commit identifiers git rev-parse may print
Shas == {<<"a", "1", "b", "2">>, <<"c", "3", "d", "4">>}

\* utcnow() as sanitize_repo_name formats it
Clock == {<<"2", "0", "2", "6", "1", "1", "0", "4", "-", "1", "0", "1", "5", "0", "0">>}

-----------------------------------------------------------------------------
(* evaluator.py *)

MAX_RETRIES == 5

RETRY_DELAYS == <<1, 2, 4, 8, 16>>

NoNotifyResult == [success |-> FALSE, error |-> <<>>, returned |-> FALSE]

\* what one requests.post to the evaluation URL produces
NotifyOutcomes ==
    {"ok200", "badjson200", "status404", "status500", "timeout", "transport", "unexpected"}

\* response.status_code of an outcome that is a response, 0 when no response arrived
StatusCode(outcome) ==
    CASE outcome \in {"ok200", "badjson200"} -> 200
      [] outcome = "status404" -> 404
      [] outcome = "status500" -> 500
      [] OTHER -> 0

\* the final error as the text of the return after the loop, whatever the outcome
NotifyErrorGeneric(outcome) == <<"Failed after maximum retries">>

\* the error text of a failed final attempt: evaluator.py 62-112
NotifyError(outcome) ==
    CASE outcome \in {"status404", "status500"} ->
            <<"Evaluation API returned status ", ToString(StatusCode(outcome)), ": ", "body">>
      [] outcome = "timeout" -> <<"Request timeout after multiple retries">>
      [] outcome = "transport" -> <<"Request failed: ", "connection refused">>
      [] outcome = "badjson200" -> <<"Request failed: ", "Expecting value">>
      [] OTHER -> <<"Unexpected error: ", "error">>

-----------------------------------------------------------------------------
(* State *)

VARIABLES
    STUDENT_SECRET,     \* app.py: the configured secret, '' when not configured
    GITHUB_TOKEN,       \* github_manager.py: hosting token, '' when not configured
    GITHUB_USERNAME,    \* github_manager.py: owning account, '' when not configured
    AIPIPE_API_KEY,     \* code_generator.py: backend keys, '' when not configured
    ANTHROPIC_API_KEY,
    OPENAI_API_KEY,
    pc,                 \* where deploy stands for the request
    payload,            \* request.get_json()
    calls,              \* the stages deploy has invoked, in order
    validation,         \* what validate_request returned or raised
    secret_ok,          \* what verify_secret returned: unchecked, accepted, rejected
    gen_args,           \* the arguments generate_app_code was called with
    dec_atts,           \* the attachments generate_app_code decoded and kept
    backend_calls,      \* the generate_with_ functions generate_app_code called
    backend_reply,      \* what the generation backend answered, NoReply when not asked
    backend_script,     \* the reply the generation backend is set to give;
                        \* NoReply when it answers freely
    app_code,           \* what generate_app_code returned
    pub_args,           \* the arguments create_and_deploy_repo was called with
    create_calls,       \* the create_repo calls sent to the hosting provider
    repo,               \* the repository the hosting provider created
    git_log,            \* the git commands run in the working tree
    temp_dir,           \* the working tree of push_files_to_repo, '' outside of it
    pushed,             \* the files of the commit pushed to the repository
    pages_calls,        \* the pages requests sent to the hosting provider
    pages_reply,        \* what the hosting provider answered to the pages request
    repo_info,          \* what create_and_deploy_repo returned
    notify_args,        \* the arguments notify_evaluation_api was called with
    attempt,            \* the loop variable of notify_evaluation_api
    posts,              \* the requests sent to the evaluation URL
    sent,               \* the target and the JSON body of each of them, in order
    sleeps,             \* the delays slept between attempts, in order
    notify_result,      \* what notify_evaluation_api returned
    script,             \* the outcomes the evaluation URL is set to give, by attempt;
                        \* <<>> when it answers freely
    hosted,             \* the names of the repositories the account holds at the
                        \* hosting provider
    trees,              \* the working trees that exist on disk
    peer,               \* another request, handled concurrently by another worker
    failure,            \* the exception deploy caught, with the stage it left
    response            \* what deploy returned: (body, status code)

config == <<STUDENT_SECRET, GITHUB_TOKEN, GITHUB_USERNAME,
            AIPIPE_API_KEY, ANTHROPIC_API_KEY, OPENAI_API_KEY>>

generator == <<gen_args, dec_atts, backend_calls, backend_reply, backend_script, app_code>>

publisher == <<pub_args, create_calls, repo, temp_dir, git_log, pushed, pages_calls,
              pages_reply, repo_info>>

world == <<hosted, trees>>

notifier == <<notify_args, attempt, posts, sent, sleeps, notify_result, script>>

vars == <<config, world, peer, pc, payload, calls, validation, secret_ok, generator,
          publisher, notifier, failure, response>>

\* jsonify(...) bodies: keys are the keys present, the other fields their values
Body(keys, status, message, error, repo_url, pages_url, commit_sha) ==
    [keys |-> keys, status |-> status, message |-> message, error |-> error,
     repo_url |-> repo_url, pages_url |-> pages_url, commit_sha |-> commit_sha]

NoResponse == [code |-> 0, body |-> Body({}, <<>>, <<>>, <<>>, <<>>, <<>>, <<>>)]

\* jsonify({'error': msg}), code
ErrorResponse(code, msg) ==
    [code |-> code, body |-> Body({"error"}, <<>>, <<>>, msg, <<>>, <<>>, <<>>)]

\* the except clause answering with a fixed message in place of str(e)
InternalErrorGeneric(text) ==
    [code |-> 500,
     body |-> Body({"error", "message"}, <<>>, <<"Internal server error">>,
                   <<"Internal server error">>, <<>>, <<>>, <<>>)]

\* the except clause answering as for a client error
InternalErrorAsClient(text) ==
    [code |-> 400,
     body |-> Body({"error", "message"}, <<>>, text, <<"Internal server error">>,
                   <<>>, <<>>, <<>>)]

\* the outermost except of deploy: app.py 120-125
InternalError(text) ==
    [code |-> 500,
     body |-> Body({"error", "message"}, <<>>, text, <<"Internal server error">>,
                   <<>>, <<>>, <<>>)]

\* no other request is being handled
NoPeer == [pc |-> "off", task_name |-> <<>>, requested |-> <<>>, repo |-> <<>>,
           temp_dir |-> <<>>, code |-> 0]

NotValidated == Returned(FALSE, <<"not validated">>)

NoFailure == [stage |-> "", exc |-> "", text |-> <<>>]

Failure(stage, exc, text) == [stage |-> stage, exc |-> exc, text |-> text]

NoGenArgs == [brief |-> JNull, checks |-> <<>>, attachments |-> <<>>]

NoPubArgs == [task_name |-> JNull, app_code |-> NoArtifact, brief |-> JNull, checks |-> <<>>]

NoNotifyArgs ==
    [evaluation_url |-> JNull, email |-> JNull, task |-> JNull, round_num |-> JNull,
     nonce |-> JNull, repo_url |-> <<>>, commit_sha |-> <<>>, pages_url |-> <<>>]

Init ==
    /\ STUDENT_SECRET \in {<<>>, <<"S">>}
    /\ GITHUB_TOKEN \in {<<>>, <<"t", "o", "k">>}
    /\ GITHUB_USERNAME \in {<<>>, <<"u", "s", "r">>}
    /\ AIPIPE_API_KEY \in {<<>>, <<"k", "1">>}
    /\ ANTHROPIC_API_KEY \in {<<>>, <<"k", "2">>}
    /\ OPENAI_API_KEY \in {<<>>, <<"k", "3">>}
    /\ pc = "idle"
    /\ payload = JNull
    /\ calls = <<>>
    /\ validation = NotValidated
    /\ secret_ok = "unchecked"
    /\ gen_args = NoGenArgs
    /\ dec_atts = <<>>
    /\ backend_calls = <<>>
    /\ backend_reply = NoReply
    /\ backend_script = NoReply
    /\ app_code = NoArtifact
    /\ pub_args = NoPubArgs
    /\ create_calls = <<>>
    /\ repo = NoRepo
    /\ temp_dir = <<>>
    /\ git_log = <<>>
    /\ pushed = NoTree
    /\ pages_calls = 0
    /\ pages_reply = NoPagesReply
    /\ repo_info = NoRepoInfo
    /\ notify_args = NoNotifyArgs
    /\ attempt = 0
    /\ posts = 0
    /\ sent = <<>>
    /\ sleeps = <<>>
    /\ notify_result = NoNotifyResult
    /\ script = <<>>
    /\ hosted = {}
    /\ trees = {}
    /\ peer = NoPeer
    /\ failure = NoFailure
    /\ response = NoResponse

-----------------------------------------------------------------------------
(* app.py: deploy *)

\* the exception leaving deploy with no except clause in its way
Propagated(stage, exc, text) ==
    /\ failure' = Failure(stage, exc, text)
    /\ pc' = "done"
    /\ UNCHANGED response

\* deploy's except clause, reached from stage with exception exc: app.py 120-125
Caught(stage, exc, text) ==
    /\ failure' = Failure(stage, exc, text)
    /\ response' = InternalError(text)
    /\ pc' = "done"

\* a request arrives at /api/deploy
Receive ==
    /\ pc = "idle"
    /\ \E p \in Payloads : payload' = p
    /\ pc' = "validate"
    /\ UNCHANGED <<config, world, peer, calls, validation, secret_ok, generator, publisher, notifier,
                   failure, response>>

\* app.py 44-55: get_json, the empty-payload test, the log line, validate_request
DeployValidate ==
    /\ pc = "validate"
    /\ IF payload.t = "unparseable"
       THEN /\ Caught("get_json", "BadRequest", <<"400 Bad Request">>)
            /\ UNCHANGED <<calls, validation>>
       ELSE IF ~Truthy(payload)
       THEN /\ response' = ErrorResponse(400, <<"No JSON payload provided">>)
            /\ pc' = "done"
            /\ UNCHANGED <<calls, validation, failure>>
       ELSE IF ~IsDict(payload)
       THEN /\ Caught("log", "AttributeError",
                      <<"'", TypeName(payload), "' object has no attribute 'get'">>)
            /\ UNCHANGED <<calls, validation>>
       ELSE /\ calls' = Append(calls, "validate_request")
            /\ validation' = validate_request(payload.d)
            /\ IF validation'.exc # ""
               THEN Caught("validate_request", validation'.exc, validation'.error_message)
               ELSE IF ~validation'.is_valid
               THEN /\ response' = ErrorResponse(400, validation'.error_message)
                    /\ pc' = "done"
                    /\ UNCHANGED failure
               ELSE /\ pc' = "verify"
                    /\ UNCHANGED <<failure, response>>
    /\ UNCHANGED <<config, world, peer, payload, secret_ok, generator, publisher, notifier>>

\* payload.get(key, default)
Get(p, key, default) == IF key \in DOMAIN p THEN p[key] ELSE default

\* DeployVerifySecret without the return after the 403 response
DeployVerifySecretNoReturn ==
    /\ pc = "verify"
    /\ calls' = Append(calls, "verify_secret")
    /\ IF ~verify_secret(Get(payload.d, "secret", JStr(<<>>)), JStr(STUDENT_SECRET))
       THEN /\ secret_ok' = "rejected"
            /\ response' = ErrorResponse(403, <<"Invalid secret">>)
            /\ pc' = "generate"
       ELSE /\ secret_ok' = "accepted"
            /\ pc' = "generate"
            /\ UNCHANGED response
    /\ UNCHANGED <<config, world, peer, payload, validation, generator, publisher, notifier, failure>>

\* app.py 57-60
DeployVerifySecret ==
    /\ pc = "verify"
    /\ calls' = Append(calls, "verify_secret")
    /\ IF ~verify_secret(Get(payload.d, "secret", JStr(<<>>)), JStr(STUDENT_SECRET))
       THEN /\ secret_ok' = "rejected"
            /\ response' = ErrorResponse(403, <<"Invalid secret">>)
            /\ pc' = "done"
       ELSE /\ secret_ok' = "accepted"
            /\ pc' = "generate"
            /\ UNCHANGED response
    /\ UNCHANGED <<config, world, peer, payload, validation, generator, publisher, notifier, failure>>

\* GenerateReturns with the generator's exception logged and swallowed
GenerateReturnsSwallowed(code) ==
    /\ app_code' = code.code
    /\ pc' = "publish"
    /\ failure' = IF code.exc # "" THEN Failure("generate_app_code", code.exc, code.text)
                  ELSE failure
    /\ UNCHANGED response

\* app.py 77: generate_app_code returned code, or raised into deploy's except clause
GenerateReturns(code) ==
    IF code.exc # ""
    THEN /\ Caught("generate_app_code", code.exc, code.text)
         /\ UNCHANGED app_code
    ELSE /\ app_code' = code.code
         /\ pc' = "publish"
         /\ UNCHANGED <<failure, response>>

\* app.py 65-77: the request details are extracted and generate_app_code is called,
\* the generation backend answering reply when it is asked
Generate(reply) ==
    /\ calls' = Append(calls, "generate_app_code")
    /\ gen_args' = [brief |-> payload.d["brief"],
                    checks |-> Get(payload.d, "checks", JList(<<>>)).l,
                    attachments |-> Get(payload.d, "attachments", JList(<<>>)).l]
    /\ dec_atts' = decoded_attachments(gen_args'.attachments)
    /\ backend_calls' =
            IF ChosenBackend(AIPIPE_API_KEY, ANTHROPIC_API_KEY, OPENAI_API_KEY) = "template"
            THEN backend_calls
            ELSE Append(backend_calls,
                        ChosenBackend(AIPIPE_API_KEY, ANTHROPIC_API_KEY, OPENAI_API_KEY))
    /\ backend_reply' =
            IF ChosenBackend(AIPIPE_API_KEY, ANTHROPIC_API_KEY, OPENAI_API_KEY) = "aipipe"
            THEN reply ELSE NoReply
    /\ GenerateReturns(generate_app_code(gen_args'.brief, gen_args'.checks,
                                         gen_args'.attachments, AIPIPE_API_KEY,
                                         ANTHROPIC_API_KEY, OPENAI_API_KEY, reply))
    /\ UNCHANGED <<config, world, peer, payload, validation, secret_ok, backend_script, publisher, notifier>>

\* app.py 77: generate_app_code is called, the generation backend answering freely
DeployGenerate ==
    /\ pc = "generate"
    /\ backend_script = NoReply
    /\ \E reply \in BackendReplies : Generate(reply)

\* app.py 77: generate_app_code is called, the generation backend answering as it is set to
DeployGenerateScripted ==
    /\ pc = "generate"
    /\ backend_script # NoReply
    /\ Generate(backend_script)

\* github_manager.py 48-62 and 76-81: create_repo answers, or raises through deploy;
\* the hosting provider creates no second repository of a name the account holds
CreateRepo(repo_name, description, created) ==
    /\ created => repo_name \notin hosted
    /\ create_calls' = Append(create_calls,
                              [name |-> repo_name, description |-> description])
    /\ hosted' = IF created THEN hosted \cup {repo_name} ELSE hosted
    /\ IF created
       THEN /\ repo' = [name |-> repo_name,
                        html_url |-> <<"https://github.com/owner/">> \o repo_name,
                        description |-> description]
            /\ pc' = "push"
            /\ UNCHANGED <<failure, response>>
       ELSE /\ Caught("create_and_deploy_repo", "GithubException",
                      <<"422 ", "Repository creation failed.">>)
            /\ UNCHANGED repo

\* PublishCreateRepo without the test of GITHUB_USERNAME
PublishCreateRepoUnchecked ==
    /\ pc = "publish"
    /\ calls' = Append(calls, "create_and_deploy_repo")
    /\ pub_args' = [task_name |-> payload.d["task"], app_code |-> app_code,
                    brief |-> payload.d["brief"],
                    checks |-> Get(payload.d, "checks", JList(<<>>)).l]
    /\ IF GITHUB_TOKEN = <<>>
       THEN /\ Caught("create_and_deploy_repo", "ValueError",
                      <<"GITHUB_TOKEN not configured">>)
            /\ UNCHANGED <<create_calls, repo, hosted>>
       ELSE \E now \in Clock, created \in BOOLEAN :
                CreateRepo(sanitize_repo_name(pub_args'.task_name.s, now),
                           <<"Auto-generated application: ">>
                               \o Slice(pub_args'.brief.s, 0, 100),
                           created)
    /\ UNCHANGED <<config, trees, peer, payload, validation, secret_ok, generator, temp_dir,
                   git_log, pushed, pages_calls, pages_reply, repo_info, notifier>>

\* app.py 79-86 and github_manager.py 33-62: the configuration tests, the repository
\* name, and the create_repo call to the hosting provider
PublishCreateRepo ==
    /\ pc = "publish"
    /\ calls' = Append(calls, "create_and_deploy_repo")
    /\ pub_args' = [task_name |-> payload.d["task"], app_code |-> app_code,
                    brief |-> payload.d["brief"],
                    checks |-> Get(payload.d, "checks", JList(<<>>)).l]
    /\ IF GITHUB_TOKEN = <<>>
       THEN /\ Caught("create_and_deploy_repo", "ValueError",
                      <<"GITHUB_TOKEN not configured">>)
            /\ UNCHANGED <<create_calls, repo, hosted>>
       ELSE IF GITHUB_USERNAME = <<>>
       THEN /\ Caught("create_and_deploy_repo", "ValueError",
                      <<"GITHUB_USERNAME not configured">>)
            /\ UNCHANGED <<create_calls, repo, hosted>>
       ELSE \E now \in Clock, created \in BOOLEAN :
                CreateRepo(sanitize_repo_name(pub_args'.task_name.s, now),
                           <<"Auto-generated application: ">>
                               \o Slice(pub_args'.brief.s, 0, 100),
                           created)
    /\ UNCHANGED <<config, trees, peer, payload, validation, secret_ok, generator, temp_dir,
                   git_log, pushed, pages_calls, pages_reply, repo_info, notifier>>

\* the prefix of the git steps run when step failed_at fails, all of them when none does
StepsRun(failed_at) ==
    IF failed_at = 0 THEN GitSteps ELSE SubSeq(GitSteps, 1, failed_at)

\* github_manager.py 65 and 123-126: push_files_to_repo is called and makes its
\* working tree, a directory that did not exist
PublishMkdtemp ==
    /\ pc = "push"
    /\ \E d \in TempDirs \ trees :
        /\ temp_dir' = d
        /\ trees' = trees \cup {d}
    /\ pc' = "git"
    /\ UNCHANGED <<config, hosted, peer, payload, calls, validation, secret_ok, generator,
                   pub_args, create_calls, repo, git_log, pushed, pages_calls, pages_reply,
                   repo_info, notifier, failure, response>>

\* PushReturns with a failing git step logged and the publish carried on
PushReturnsRegardless(failed_at, sha) ==
    /\ pushed' = IF failed_at \in {0, Len(GitSteps)}
                 THEN WorkingTree(pub_args.app_code, pub_args.brief, pub_args.checks)
                 ELSE pushed
    /\ repo_info' = [repo_info EXCEPT !.commit_sha = IF failed_at = 0 THEN sha ELSE <<>>]
    /\ pc' = "pages"
    /\ UNCHANGED <<failure, response>>

\* push_files_to_repo returns commit_sha, or raises through create_and_deploy_repo
\* into deploy's except clause; failed_at is the git step that fails, 0 when none does
PushReturns(failed_at, sha) ==
    IF failed_at = 0
    THEN /\ pushed' = WorkingTree(pub_args.app_code, pub_args.brief, pub_args.checks)
         /\ repo_info' = [repo_info EXCEPT !.commit_sha = sha]
         /\ pc' = "pages"
         /\ UNCHANGED <<failure, response>>
    ELSE /\ Caught("create_and_deploy_repo", "CalledProcessError",
                   <<"Command 'git ", GitSteps[failed_at],
                     "' returned non-zero exit status 1.">>)
         /\ pushed' = IF failed_at = Len(GitSteps)
                      THEN WorkingTree(pub_args.app_code, pub_args.brief, pub_args.checks)
                      ELSE pushed
         /\ UNCHANGED repo_info

\* PublishPushFiles removing the working tree after the last statement of the try
\* block, with no finally clause
PublishPushFilesNoFinally ==
    /\ pc = "git"
    /\ \E failed_at \in 0..Len(GitSteps), sha \in Shas :
        /\ git_log' = git_log \o StepsRun(failed_at)
        /\ PushReturns(failed_at, sha)
        /\ trees' = IF failed_at = 0 THEN trees \ {temp_dir} ELSE trees
    /\ temp_dir' = <<>>
    /\ UNCHANGED <<config, hosted, peer, payload, calls, validation, secret_ok, generator,
                   pub_args, create_calls, repo, pages_calls, pages_reply, notifier>>

\* github_manager.py 128-204: the git steps run in the working tree, the files are
\* written, and the finally clause removes the working tree on the way out
PublishPushFiles ==
    /\ pc = "git"
    /\ \E failed_at \in 0..Len(GitSteps), sha \in Shas :
        /\ git_log' = git_log \o StepsRun(failed_at)
        /\ PushReturns(failed_at, sha)
    /\ trees' = trees \ {temp_dir}
    /\ temp_dir' = <<>>
    /\ UNCHANGED <<config, hosted, peer, payload, calls, validation, secret_ok, generator,
                   pub_args, create_calls, repo, pages_calls, pages_reply, notifier>>

\* github_manager.py 131-135 and 182-187: git clone and git push talk to the hosting
\* provider through subprocess.run with no timeout; when the provider stalls the call
\* never returns and the worker stays inside it
PublishGitStalls ==
    /\ pc = "git"
    /\ \E step \in {1, 5} : git_log' = git_log \o SubSeq(GitSteps, 1, step)
    /\ pc' = "blocked"
    /\ UNCHANGED <<config, world, peer, payload, calls, validation, secret_ok, generator,
                   pub_args, create_calls, repo, temp_dir, pushed, pages_calls, pages_reply,
                   repo_info, notifier, failure, response>>

\* github_manager.py 235: requests.post is called with no timeout; when the hosting
\* provider stalls the call never returns and the worker stays inside it
PublishPagesStalls ==
    /\ pc = "pages"
    /\ pages_calls' = pages_calls + 1
    /\ pc' = "blocked"
    /\ UNCHANGED <<config, world, peer, payload, calls, validation, secret_ok, generator,
                   pub_args, create_calls, repo, temp_dir, git_log, pushed, pages_reply,
                   repo_info, notifier, failure, response>>

\* github_manager.py 68-81: enable_github_pages returned the site URL and the result
\* is built, or it raised through create_and_deploy_repo into deploy's except clause
PagesReturns(pages) ==
    IF pages.exc # ""
    THEN /\ Caught("create_and_deploy_repo", pages.exc, <<"pages request failed">>)
         /\ UNCHANGED repo_info
    ELSE /\ repo_info' = [repo_url |-> repo.html_url,
                          commit_sha |-> repo_info.commit_sha,
                          pages_url |-> pages.pages_url]
         /\ pc' = "notify"
         /\ UNCHANGED <<failure, response>>

\* github_manager.py 67-74 and 206-258: enable_github_pages and the returned result
PublishEnablePages ==
    /\ pc = "pages"
    /\ \E reply \in PagesReplies :
        /\ pages_calls' = pages_calls + 1
        /\ pages_reply' = reply
        /\ PagesReturns(enable_github_pages(GITHUB_USERNAME, repo.name, reply))
    /\ UNCHANGED <<config, world, peer, payload, calls, validation, secret_ok, generator,
                   pub_args, create_calls, repo, temp_dir, git_log, pushed, notifier>>

\* app.py 88-99 and evaluator.py 31-45: notify_evaluation_api is called
DeployNotify ==
    /\ pc = "notify"
    /\ calls' = Append(calls, "notify_evaluation_api")
    /\ notify_args' = [evaluation_url |-> payload.d["evaluation_url"],
                       email |-> payload.d["email"], task |-> payload.d["task"],
                       round_num |-> payload.d["round"], nonce |-> payload.d["nonce"],
                       repo_url |-> repo_info.repo_url,
                       commit_sha |-> repo_info.commit_sha,
                       pages_url |-> repo_info.pages_url]
    /\ attempt' = 0
    /\ pc' = "post"
    /\ UNCHANGED <<config, world, peer, payload, validation, secret_ok, generator, publisher, posts, sent,
                   sleeps, notify_result, script, failure, response>>

\* the payload of notify_evaluation_api without the nonce of the request
notify_payload_anonymous(args) ==
    [email |-> args.email, task |-> args.task, round |-> args.round_num, nonce |-> JNull,
     repo_url |-> args.repo_url, commit_sha |-> args.commit_sha,
     pages_url |-> args.pages_url]

\* evaluator.py 31-39: the JSON body, built once from the arguments before the loop
notify_payload(args) ==
    [email |-> args.email, task |-> args.task, round |-> args.round_num,
     nonce |-> args.nonce, repo_url |-> args.repo_url, commit_sha |-> args.commit_sha,
     pages_url |-> args.pages_url]

\* Attempt sleeping after the final attempt as after the others
AttemptSleepsAlways(outcome) ==
    /\ posts' = posts + 1
    /\ sent' = Append(sent, [url |-> notify_args.evaluation_url,
                             json |-> notify_payload(notify_args)])
    /\ IF outcome = "ok200"
       THEN /\ notify_result' = [success |-> TRUE, error |-> <<>>, returned |-> TRUE]
            /\ pc' = "respond"
            /\ UNCHANGED <<attempt, sleeps>>
       ELSE /\ sleeps' = Append(sleeps, RETRY_DELAYS[attempt + 1])
            /\ IF attempt < MAX_RETRIES - 1
               THEN /\ attempt' = attempt + 1
                    /\ UNCHANGED <<notify_result, pc>>
               ELSE /\ notify_result' = [success |-> FALSE, error |-> NotifyError(outcome),
                                         returned |-> TRUE]
                    /\ pc' = "respond"
                    /\ UNCHANGED attempt

\* Attempt noting a success and going on with the loop
AttemptNoReturn(outcome) ==
    /\ posts' = posts + 1
    /\ sent' = Append(sent, [url |-> notify_args.evaluation_url,
                             json |-> notify_payload(notify_args)])
    /\ IF attempt < MAX_RETRIES - 1
       THEN /\ sleeps' = IF outcome = "ok200" THEN sleeps
                         ELSE Append(sleeps, RETRY_DELAYS[attempt + 1])
            /\ attempt' = attempt + 1
            /\ UNCHANGED <<notify_result, pc>>
       ELSE /\ notify_result' = [success |-> outcome = "ok200",
                                 error |-> IF outcome = "ok200" THEN <<>>
                                           ELSE NotifyError(outcome),
                                 returned |-> TRUE]
            /\ pc' = "respond"
            /\ UNCHANGED <<attempt, sleeps>>

\* evaluator.py 48-113: one iteration of the retry loop, the request having outcome
Attempt(outcome) ==
    /\ posts' = posts + 1
    /\ sent' = Append(sent, [url |-> notify_args.evaluation_url,
                             json |-> notify_payload(notify_args)])
    /\ IF outcome = "ok200"
       THEN /\ notify_result' = [success |-> TRUE, error |-> <<>>, returned |-> TRUE]
            /\ pc' = "respond"
            /\ UNCHANGED <<attempt, sleeps>>
       ELSE IF attempt < MAX_RETRIES - 1
       THEN /\ sleeps' = Append(sleeps, RETRY_DELAYS[attempt + 1])
            /\ attempt' = attempt + 1
            /\ UNCHANGED <<notify_result, pc>>
       ELSE /\ notify_result' = [success |-> FALSE, error |-> NotifyError(outcome),
                                 returned |-> TRUE]
            /\ pc' = "respond"
            /\ UNCHANGED <<attempt, sleeps>>

\* evaluator.py 47-113: an iteration of the loop, the evaluation URL answering freely
NotifyAttempt ==
    /\ pc = "post"
    /\ attempt < MAX_RETRIES
    /\ script = <<>>
    /\ \E outcome \in NotifyOutcomes : Attempt(outcome)
    /\ UNCHANGED <<config, world, peer, payload, calls, validation, secret_ok, generator, publisher,
                   notify_args, script, failure, response>>

\* evaluator.py 47-113: an iteration of the loop, the evaluation URL following its script
NotifyScripted ==
    /\ pc = "post"
    /\ attempt < MAX_RETRIES
    /\ script # <<>>
    /\ Attempt(script[attempt + 1])
    /\ UNCHANGED <<config, world, peer, payload, calls, validation, secret_ok, generator, publisher,
                   notify_args, script, failure, response>>

\* DeployRespond treating a failed notification as a failed deployment
DeployRespondFailed ==
    /\ pc = "respond"
    /\ response' =
        IF notify_result.success
        THEN [code |-> 200,
              body |-> Body({"status", "message", "repo_url", "pages_url", "commit_sha"},
                            <<"success">>, <<"Application deployed successfully">>, <<>>,
                            repo_info.repo_url, repo_info.pages_url, repo_info.commit_sha)]
        ELSE InternalError(notify_result.error)
    /\ pc' = "done"
    /\ UNCHANGED <<config, world, peer, payload, calls, validation, secret_ok, generator, publisher,
                   notifier, failure>>

\* app.py 101-118: the response built from the notification result
DeployRespond ==
    /\ pc = "respond"
    /\ response' =
        IF notify_result.success
        THEN [code |-> 200,
              body |-> Body({"status", "message", "repo_url", "pages_url", "commit_sha"},
                            <<"success">>, <<"Application deployed successfully">>, <<>>,
                            repo_info.repo_url, repo_info.pages_url, repo_info.commit_sha)]
        ELSE [code |-> 200,
              body |-> Body({"status", "message", "repo_url", "pages_url", "error"},
                            <<"partial_success">>,
                            <<"App deployed but evaluation notification failed">>,
                            notify_result.error, repo_info.repo_url, repo_info.pages_url,
                            <<>>)]
    /\ pc' = "done"
    /\ UNCHANGED <<config, world, peer, payload, calls, validation, secret_ok, generator, publisher, notifier,
                   failure>>

Next ==
    \/ Receive
    \/ DeployValidate
    \/ DeployVerifySecret
    \/ DeployGenerate
    \/ PublishCreateRepo
    \/ PublishMkdtemp
    \/ PublishPushFiles
    \/ PublishGitStalls
    \/ PublishEnablePages
    \/ PublishPagesStalls
    \/ DeployNotify
    \/ NotifyAttempt
    \/ DeployRespond

Spec == Init /\ [][Next]_vars

-----------------------------------------------------------------------------
(* notify_evaluation_api against an evaluation URL that follows a script *)

\* the outcomes of MAX_RETRIES requests in a row
Scripts == [1..MAX_RETRIES -> NotifyOutcomes]

\* the template artifact generated for the request Base with no backend configured
BaseCode == generate_template_code(Base.brief, Base.checks.l, <<>>).code

\* what create_repo is sent and answers for the request Base
BaseRepo ==
    [name |-> sanitize_repo_name(Base.task.s, <<>>),
     html_url |-> <<"https://github.com/owner/">> \o sanitize_repo_name(Base.task.s, <<>>),
     description |-> <<"Auto-generated application: ">> \o Slice(Base.brief.s, 0, 100)]

\* deploy at app.py 88 for the request Base: validated, authenticated, generated from
\* the template and published, about to call notify_evaluation_api
PublishedBase ==
    /\ STUDENT_SECRET = Base.secret.s
    /\ GITHUB_TOKEN = <<"t", "o", "k">>
    /\ GITHUB_USERNAME = <<"u", "s", "r">>
    /\ AIPIPE_API_KEY = <<>>
    /\ ANTHROPIC_API_KEY = <<>>
    /\ OPENAI_API_KEY = <<>>
    /\ pc = "notify"
    /\ payload = JDict(Base)
    /\ calls = <<"validate_request", "verify_secret", "generate_app_code",
                 "create_and_deploy_repo">>
    /\ validation = validate_request(Base)
    /\ secret_ok = "accepted"
    /\ dec_atts = <<>>
    /\ gen_args = [brief |-> Base.brief, checks |-> Base.checks.l,
                   attachments |-> Base.attachments.l]
    /\ backend_calls = <<>>
    /\ backend_reply = NoReply
    /\ backend_script = NoReply
    /\ app_code = BaseCode
    /\ pub_args = [task_name |-> Base.task, app_code |-> BaseCode, brief |-> Base.brief,
                   checks |-> Base.checks.l]
    /\ create_calls = <<[name |-> BaseRepo.name, description |-> BaseRepo.description]>>
    /\ repo = BaseRepo
    /\ temp_dir = <<>>
    /\ git_log = GitSteps
    /\ pushed = WorkingTree(BaseCode, Base.brief, Base.checks.l)
    /\ pages_calls = 1
    /\ pages_reply = 201
    /\ repo_info \in [repo_url : {BaseRepo.html_url}, commit_sha : Shas,
                      pages_url : {PagesUrl(<<"u", "s", "r">>, BaseRepo.name)}]
    /\ notify_args = NoNotifyArgs
    /\ attempt = 0
    /\ posts = 0
    /\ sent = <<>>
    /\ sleeps = <<>>
    /\ notify_result = NoNotifyResult
    /\ hosted = {BaseRepo.name}
    /\ trees = {}
    /\ peer = NoPeer
    /\ failure = NoFailure
    /\ response = NoResponse

NotifyInit == PublishedBase /\ script \in Scripts

NotifyNext ==
    \/ DeployNotify
    \/ NotifyScripted
    \/ DeployRespond

NotifySpec == NotifyInit /\ [][NotifyNext]_vars

-----------------------------------------------------------------------------
(* parse_llm_response against a generation backend that answers a given text *)

MaxMarkers == 4

\* response_text of generate_with_aipipe, the content of the backend's first choice:
\* texts made of the markers parse_llm_response looks for, a letter and a line break
LlmTexts ==
    {Concat(pieces) :
        pieces \in SeqsUpTo({FenceHtml, Fence, Doctype, CloseHtml, <<"X">>, <<"\n">>},
                            MaxMarkers)}

\* deploy at app.py 77 for the request Base with AIPIPE_API_KEY set: validated and
\* authenticated, about to call generate_app_code
AuthenticatedBase ==
    /\ STUDENT_SECRET = Base.secret.s
    /\ GITHUB_TOKEN = <<"t", "o", "k">>
    /\ GITHUB_USERNAME = <<"u", "s", "r">>
    /\ AIPIPE_API_KEY = <<"k", "1">>
    /\ ANTHROPIC_API_KEY = <<>>
    /\ OPENAI_API_KEY = <<>>
    /\ pc = "generate"
    /\ payload = JDict(Base)
    /\ calls = <<"validate_request", "verify_secret">>
    /\ validation = validate_request(Base)
    /\ secret_ok = "accepted"
    /\ gen_args = NoGenArgs
    /\ dec_atts = <<>>
    /\ backend_calls = <<>>
    /\ backend_reply = NoReply
    /\ app_code = NoArtifact
    /\ pub_args = NoPubArgs
    /\ create_calls = <<>>
    /\ repo = NoRepo
    /\ temp_dir = <<>>
    /\ git_log = <<>>
    /\ pushed = NoTree
    /\ pages_calls = 0
    /\ pages_reply = NoPagesReply
    /\ repo_info = NoRepoInfo
    /\ notify_args = NoNotifyArgs
    /\ attempt = 0
    /\ posts = 0
    /\ sent = <<>>
    /\ sleeps = <<>>
    /\ notify_result = NoNotifyResult
    /\ script = <<>>
    /\ hosted = {}
    /\ trees = {}
    /\ peer = NoPeer
    /\ failure = NoFailure
    /\ response = NoResponse

ParseInit == AuthenticatedBase /\ backend_script \in {Reply("ok", 200, x) : x \in LlmTexts}

ParseSpec == ParseInit /\ [][DeployGenerateScripted]_vars

-----------------------------------------------------------------------------
(* two requests handled concurrently: deploy for the request Base, and the publish
   step of another request in another worker, against one account and one disk *)

\* the variables of the request deploy handles
request == <<pc, payload, calls, validation, secret_ok, generator, publisher, notifier,
             failure, response>>

\* the task of the other request: that of Base, one that sanitizes to the same
\* repository name, one that does not
PeerTasks ==
    {Base.task.s, <<"C", "l", "o", "c", "k", "_", "A", "p", "p">>, <<"M", "a", "p">>}

\* app.py 36-42 for the other worker: after it answered, it is handed a further
\* request, again with the secret of the deployment and a task of PeerTasks
PeerReceive ==
    /\ peer.pc = "done"
    /\ \E t \in PeerTasks : peer' = [NoPeer EXCEPT !.pc = "publish", !.task_name = t]
    /\ UNCHANGED <<config, world, request>>

\* github_manager.py 46-62 and 76-81 for the other request: create_repo answers or raises
PeerCreated(repo_name, created) ==
    /\ created => repo_name \notin hosted
    /\ hosted' = IF created THEN hosted \cup {repo_name} ELSE hosted
    /\ peer' = [peer EXCEPT !.requested = repo_name,
                            !.repo = IF created THEN repo_name ELSE <<>>,
                            !.pc = IF created THEN "push" ELSE "done",
                            !.code = IF created THEN 0 ELSE 500]

\* github_manager.py 33-62 for the other request
PeerCreateRepo ==
    /\ peer.pc = "publish"
    /\ IF GITHUB_TOKEN = <<>> \/ GITHUB_USERNAME = <<>>
       THEN /\ peer' = [peer EXCEPT !.pc = "done", !.code = 500]
            /\ UNCHANGED hosted
       ELSE \E now \in Clock, created \in BOOLEAN :
                PeerCreated(sanitize_repo_name(peer.task_name, now), created)
    /\ UNCHANGED <<config, trees, request>>

\* github_manager.py 123-126 for the other request
PeerMkdtemp ==
    /\ peer.pc = "push"
    /\ \E d \in TempDirs \ trees :
        /\ peer' = [peer EXCEPT !.temp_dir = d, !.pc = "git"]
        /\ trees' = trees \cup {d}
    /\ UNCHANGED <<config, hosted, request>>

\* PeerPushFiles deleting the repository it created when a git step fails
PeerPushFilesRollback ==
    /\ peer.pc = "git"
    /\ \E failed_at \in 0..Len(GitSteps) :
        /\ peer' = [peer EXCEPT !.temp_dir = <<>>, !.pc = "done",
                                !.code = IF failed_at = 0 THEN 200 ELSE 500]
        /\ hosted' = IF failed_at = 0 THEN hosted ELSE hosted \ {peer.repo}
    /\ trees' = trees \ {peer.temp_dir}
    /\ UNCHANGED <<config, request>>

\* github_manager.py 128-204 and app.py 88-125 for the other request: the git steps
\* and the finally clause; a push that returned ends in a 200 response, one that
\* raised in a 500 response
PeerPushFiles ==
    /\ peer.pc = "git"
    /\ \E failed_at \in 0..Len(GitSteps) :
        peer' = [peer EXCEPT !.temp_dir = <<>>, !.pc = "done",
                             !.code = IF failed_at = 0 THEN 200 ELSE 500]
    /\ trees' = trees \ {peer.temp_dir}
    /\ UNCHANGED <<config, hosted, request>>

\* deploy at app.py 79 for the request Base with no backend key set: the template
\* artifact was generated, create_and_deploy_repo is about to be called
GeneratedBase ==
    /\ STUDENT_SECRET = Base.secret.s
    /\ GITHUB_TOKEN = <<"t", "o", "k">>
    /\ GITHUB_USERNAME = <<"u", "s", "r">>
    /\ AIPIPE_API_KEY = <<>>
    /\ ANTHROPIC_API_KEY = <<>>
    /\ OPENAI_API_KEY = <<>>
    /\ pc = "publish"
    /\ payload = JDict(Base)
    /\ calls = <<"validate_request", "verify_secret", "generate_app_code">>
    /\ validation = validate_request(Base)
    /\ secret_ok = "accepted"
    /\ dec_atts = <<>>
    /\ gen_args = [brief |-> Base.brief, checks |-> Base.checks.l,
                   attachments |-> Base.attachments.l]
    /\ backend_calls = <<>>
    /\ backend_reply = NoReply
    /\ backend_script = NoReply
    /\ app_code = BaseCode
    /\ pub_args = NoPubArgs
    /\ create_calls = <<>>
    /\ repo = NoRepo
    /\ temp_dir = <<>>
    /\ git_log = <<>>
    /\ pushed = NoTree
    /\ pages_calls = 0
    /\ pages_reply = NoPagesReply
    /\ repo_info = NoRepoInfo
    /\ notify_args = NoNotifyArgs
    /\ attempt = 0
    /\ posts = 0
    /\ sent = <<>>
    /\ sleeps = <<>>
    /\ notify_result = NoNotifyResult
    /\ script = <<>>
    /\ hosted = {}
    /\ trees = {}
    /\ failure = NoFailure
    /\ response = NoResponse

ConcurrentNext ==
    \/ PublishCreateRepo
    \/ PublishMkdtemp
    \/ PublishPushFiles
    \/ PublishEnablePages
    \/ DeployNotify
    \/ NotifyAttempt
    \/ DeployRespond
    \/ PeerCreateRepo
    \/ PeerMkdtemp
    \/ PeerPushFiles
    \/ PeerReceive

ConcurrentInit ==
    /\ GeneratedBase
    /\ peer \in {[NoPeer EXCEPT !.pc = "publish", !.task_name = t] : t \in PeerTasks}

ConcurrentSpec == ConcurrentInit /\ [][ConcurrentNext]_vars

-----------------------------------------------------------------------------
(* deploy for the request Base from the generate_app_code call on, its worker
   taking every step it can take *)

LiveNext ==
    \/ DeployGenerate
    \/ PublishCreateRepo
    \/ PublishMkdtemp
    \/ PublishPushFiles
    \/ PublishGitStalls
    \/ PublishEnablePages
    \/ PublishPagesStalls
    \/ DeployNotify
    \/ NotifyAttempt
    \/ DeployRespond

\* a worker that can take a step of deploy takes it
LiveInit == AuthenticatedBase /\ backend_script = NoReply

LiveSpec == LiveInit /\ [][LiveNext]_vars /\ WF_vars(LiveNext)

-----------------------------------------------------------------------------
(* Properties *)

StageOrder == <<"validate_request", "verify_secret", "generate_app_code",
                "create_and_deploy_repo", "notify_evaluation_api">>

Invoked(stage) == \E i \in DOMAIN calls : calls[i] = stage

\* validate_request returned (True, '')
ValidationPassed == Invoked("validate_request") /\ validation.exc = "" /\ validation.is_valid

\* the request was turned away by the validating step: the empty-payload test, or
\* validate_request returning (False, reason)
ValidationFailed ==
    \/ pc = "done" /\ payload.t # "unparseable" /\ ~Truthy(payload)
    \/ Invoked("validate_request") /\ validation.exc = "" /\ ~validation.is_valid

\* create_and_deploy_repo returned a result
Published ==
    /\ Invoked("create_and_deploy_repo")
    /\ failure = NoFailure
    /\ repo_info.pages_url # <<>>

Pushes == Len(SelectSeq(git_log, LAMBDA step : step = "push"))

\* C1: the stages run in the order validate, verify secret, generate, publish, notify,
\* each at most once, each only after the one before returned successfully; publish
\* receives the artifact generate returned and notify the result publish returned
C1_StagesInOrder ==
    /\ Len(calls) <= Len(StageOrder)
    /\ calls = SubSeq(StageOrder, 1, Len(calls))
    /\ Len(calls) >= 2 => ValidationPassed
    /\ Len(calls) >= 3 => secret_ok = "accepted"
    /\ Len(calls) >= 4 => /\ failure.stage \notin {"validate_request", "generate_app_code"}
                          /\ pub_args.app_code = app_code
    /\ Len(calls) >= 5 => /\ failure = NoFailure
                          /\ Pushes = 1
                          /\ notify_args.repo_url = repo_info.repo_url
                          /\ notify_args.commit_sha = repo_info.commit_sha
                          /\ notify_args.pages_url = repo_info.pages_url
                          /\ repo_info.repo_url = repo.html_url
                          /\ repo_info.commit_sha \in Shas

C1_AllStagesRan == pc = "done" /\ calls = StageOrder

NoSideEffect ==
    /\ ~Invoked("generate_app_code")
    /\ ~Invoked("create_and_deploy_repo")
    /\ ~Invoked("notify_evaluation_api")
    /\ backend_calls = <<>>
    /\ create_calls = <<>>
    /\ git_log = <<>>
    /\ pages_calls = 0
    /\ posts = 0

\* C2: a request answered 400 or 403 caused no call of the generator, the generation
\* backend, the publisher or the notification endpoint
C2_ClientErrorNoSideEffect == response.code \in {400, 403} => NoSideEffect

C2_SecretRejected == pc = "done" /\ response.code = 403 /\ secret_ok = "rejected"

\* C3: when the publisher returned and every notification attempt failed, deploy
\* answers 200 partial_success with the publisher's repo_url and pages_url and the
\* notifier's error
C3_PartialSuccess ==
    (pc = "done" /\ Published /\ notify_result.returned /\ ~notify_result.success)
    => /\ response.code = 200
       /\ response.body.status = <<"partial_success">>
       /\ {"repo_url", "pages_url", "error"} \subseteq response.body.keys
       /\ response.body.repo_url = repo_info.repo_url
       /\ response.body.pages_url = repo_info.pages_url
       /\ response.body.repo_url # <<>>
       /\ response.body.error = notify_result.error
       /\ response.body.error # <<>>

C3_NotifyExhausted ==
    /\ pc = "done"
    /\ Published
    /\ notify_result.returned /\ ~notify_result.success
    /\ posts = MAX_RETRIES

\* C4: a failure of the publisher ends the request with a 500 whose message is the
\* cause; the repository is created at most once, pushed at most once, and the
\* notification endpoint is not called
C4_PublishFailure ==
    /\ Len(create_calls) <= 1
    /\ Pushes <= 1
    /\ (pc = "done" /\ failure.stage = "create_and_deploy_repo")
       => /\ response.code = 500
          /\ failure.text # <<>>
          /\ response.body.message = failure.text
          /\ ~Invoked("notify_evaluation_api")
          /\ posts = 0

C4_PushFailed ==
    /\ pc = "done"
    /\ failure.stage = "create_and_deploy_repo"
    /\ failure.exc = "CalledProcessError"
    /\ Pushes = 1
    /\ Len(create_calls) = 1

IsSuccess ==
    /\ response.code = 200
    /\ response.body.status = <<"success">>
    /\ {"repo_url", "commit_sha", "pages_url"} \subseteq response.body.keys
    /\ response.body.repo_url = repo_info.repo_url
    /\ response.body.commit_sha = repo_info.commit_sha
    /\ response.body.pages_url = repo_info.pages_url

IsPartialSuccess ==
    /\ response.code = 200
    /\ response.body.status = <<"partial_success">>

\* C5: the answer of deploy is decided by the stage results: 400 iff validation
\* failed, 403 iff validation passed and the secret was rejected, 200 success iff
\* validation, authentication, publish and notify succeeded, 200 partial_success iff
\* only notify failed, 500 in every other case
C5_Classification ==
    pc = "done" =>
        /\ response.code \in {200, 400, 403, 500}
        /\ response.code = 400 <=> ValidationFailed
        /\ response.code = 403 <=> (ValidationPassed /\ secret_ok = "rejected")
        /\ IsSuccess <=> (ValidationPassed /\ secret_ok = "accepted" /\ Published
                          /\ notify_result.returned /\ notify_result.success)
        /\ IsPartialSuccess <=> (ValidationPassed /\ secret_ok = "accepted" /\ Published
                                 /\ notify_result.returned /\ ~notify_result.success)
        /\ response.code = 200 => (IsSuccess \/ IsPartialSuccess)

C5_Success == pc = "done" /\ IsSuccess /\ notify_result.success

\* v is a non-empty string
NonEmptyStr(v) == IsStr(v) /\ Len(v.s) > 0

\* the attachments value atts is not a list of objects with name and url
BadAttachments(atts) ==
    \/ ~IsList(atts)
    \/ \E i \in DOMAIN atts.l :
            \/ ~IsDict(atts.l[i])
            \/ ~({"name", "url"} \subseteq DOMAIN atts.l[i].d)

\* the payload p breaks one of the rules of the request validator
ViolatesRule(p) ==
    \/ \E i \in DOMAIN required_fields : required_fields[i] \notin DOMAIN p
    \/ /\ \A i \in DOMAIN required_fields : required_fields[i] \in DOMAIN p
       /\ \/ ~IsStr(p["email"])
          \/ ~Contains(p["email"].s, "@")
          \/ ~Contains(LastPart(p["email"].s, "@"), ".")
          \/ ~IsInt(p["round"])
          \/ p["round"].n < 1
          \/ ~NonEmptyStr(p["task"])
          \/ ~NonEmptyStr(p["nonce"])
          \/ ~NonEmptyStr(p["brief"])
          \/ ~IsStr(p["evaluation_url"])
          \/ ~StartsWith(p["evaluation_url"].s, <<"h", "t", "t", "p">>)
          \/ ("checks" \in DOMAIN p /\ ~IsList(p["checks"]))
          \/ ("attachments" \in DOMAIN p /\ BadAttachments(p["attachments"]))

\* C6: a payload that breaks a validation rule is answered 400 with the reason
C6_InvalidIs400 ==
    (pc = "done" /\ IsDict(payload) /\ ViolatesRule(payload.d))
    => /\ response.code = 400
       /\ response.body.error # <<>>

\* C7: a valid request with a wrong secret is answered 403 and nothing else happens;
\* an invalid request with a wrong secret is answered 400
C7_ValidationBeforeSecret ==
    (pc = "done" /\ IsDict(payload)
        /\ ~PyEq(Get(payload.d, "secret", JStr(<<>>)), JStr(STUDENT_SECRET)))
    => /\ ~ViolatesRule(payload.d) => (response.code = 403 /\ NoSideEffect)
       /\ ViolatesRule(payload.d) => response.code = 400

\* C8: verify_secret rejects every provided value while no secret is configured, and
\* otherwise accepts exactly the provided value equal to the configured secret
C8_VerifySecret ==
    secret_ok # "unchecked" =>
        /\ STUDENT_SECRET = <<>> => secret_ok = "rejected"
        /\ STUDENT_SECRET # <<>> =>
            (secret_ok = "accepted" <=> /\ IsStr(payload.d["secret"])
                                        /\ payload.d["secret"].s = STUDENT_SECRET)

C8_EmptyAgainstEmpty ==
    /\ secret_ok = "rejected"
    /\ STUDENT_SECRET = <<>>
    /\ payload.d["secret"] = JStr(<<>>)

\* the payload p is a valid DeploymentRequest
FullyValid(p) ==
    /\ ~ViolatesRule(p)
    /\ "checks" \in DOMAIN p => \A i \in DOMAIN p["checks"].l : IsStr(p["checks"].l[i])

\* C9: whenever the generating stage is entered the request is a valid
\* DeploymentRequest, the checks being strings
C9_ValidBeforeGenerating ==
    (pc = "generate" \/ Invoked("generate_app_code")) => FullyValid(payload.d)

\* the pieces of the reason of a rejection
Named(reason) == {reason[i] : i \in DOMAIN reason}

\* C10: for a payload missing required fields validate_request returns ok=false with
\* a reason naming every missing field
C10_AllMissingNamed ==
    (Invoked("validate_request")
        /\ \E i \in DOMAIN required_fields : required_fields[i] \notin DOMAIN payload.d)
    => /\ validation.exc = ""
       /\ ~validation.is_valid
       /\ \A i \in DOMAIN required_fields :
            required_fields[i] \notin DOMAIN payload.d
                => required_fields[i] \in Named(validation.error_message)

C10_TwoMissing ==
    /\ Invoked("validate_request")
    /\ ~validation.is_valid
    /\ Cardinality({i \in DOMAIN required_fields :
                        required_fields[i] \notin DOMAIN payload.d}) >= 2

HasRequired(p) == \A i \in DOMAIN required_fields : required_fields[i] \in DOMAIN p

\* the string email has no '@', or no '.' in the part after the last '@'
MalformedEmail(email) ==
    /\ IsStr(email)
    /\ \/ ~Contains(email.s, "@")
       \/ ~Contains(LastPart(email.s, "@"), ".")

\* C11: for a payload with all required fields whose email has no '@', or no '.'
\* after the '@', validate_request returns ok=false
C11_MalformedEmailRejected ==
    (Invoked("validate_request") /\ HasRequired(payload.d)
        /\ MalformedEmail(payload.d["email"]))
    => /\ validation.exc = ""
       /\ ~validation.is_valid
       /\ validation.error_message = <<"Invalid email format">>

C11_DotBeforeAtOnly ==
    /\ Invoked("validate_request")
    /\ HasRequired(payload.d)
    /\ MalformedEmail(payload.d["email"])
    /\ Contains(payload.d["email"].s, "@")
    /\ Contains(payload.d["email"].s, ".")
    /\ ~validation.is_valid

\* notify_evaluation_api has returned to deploy
NotifyReturned == notify_result.returned

\* every request of the script is answered with status 500
Persistent500 == script # <<>> /\ \A i \in DOMAIN script : script[i] = "status500"

\* C12 as stated: on persistent 500 responses there are 5 attempts, the sleeps are
\* 1, 2, 4, 8, 16 in order, and the failure reports the status code of the last response
C12_SleepsWholeSchedule ==
    (Persistent500 /\ NotifyReturned)
    => /\ posts = 5
       /\ sleeps = <<1, 2, 4, 8, 16>>
       /\ ~notify_result.success
       /\ "500" \in Named(notify_result.error)

\* C12 amended: on persistent 500 responses there are 5 attempts, the sleeps between
\* them are 1, 2, 4, 8 in order (the delay of 16 is never slept), and the failure
\* reports the status code of the last response
C12_SleepsBetweenAttempts ==
    (Persistent500 /\ NotifyReturned)
    => /\ posts = 5
       /\ sleeps = <<1, 2, 4, 8>>
       /\ ~notify_result.success
       /\ "500" \in Named(notify_result.error)

C12_FiveTimes500 == Persistent500 /\ NotifyReturned /\ pc = "done" /\ posts = 5

\* the attempts of the script answered with status 200
Answered200 == {i \in DOMAIN script : StatusCode(script[i]) = 200}

\* C13: notify_evaluation_api returns success on the first attempt answered with
\* status 200, whatever the body, with no attempt and no sleep after it
C13_SuccessOnFirst200 ==
    (NotifyReturned /\ Answered200 # {})
    => /\ notify_result.success
       /\ posts = Min(Answered200)
       /\ Len(sleeps) = Min(Answered200) - 1

\* C14: for every sequence of attempt results at most 5 requests are sent, none after
\* an attempt that succeeded and none after the 5th
C14_AtMostFiveRequests ==
    script # <<>> =>
        /\ posts <= 5
        /\ \A i \in 1..(posts - 1) : script[i] # "ok200"
        /\ NotifyReturned => posts = 5 \/ script[posts] = "ok200"
        /\ pc = "post" => posts = attempt

C14_StoppedAtSuccess ==
    /\ script # <<>>
    /\ pc = "done"
    /\ posts = 3
    /\ script[3] = "ok200"
    /\ script[4] # "ok200"

\* the error names the cause of the attempt with this outcome
DescribesCause(error, outcome) ==
    CASE outcome \in {"status404", "status500"} ->
            ToString(StatusCode(outcome)) \in Named(error) /\ "body" \in Named(error)
      [] outcome = "timeout" -> error = <<"Request timeout after multiple retries">>
      [] outcome = "transport" -> "connection refused" \in Named(error)
      [] OTHER -> error # <<>>

\* C15: notify_evaluation_api raises nothing and returns an outcome; a failed attempt
\* before the 5th is followed by another attempt, failure is returned only after a
\* failed 5th attempt, with a non-empty error describing the cause of that attempt
C15_AlwaysAnOutcome ==
    script # <<>> =>
        /\ failure = NoFailure
        /\ pc = "post" => attempt < MAX_RETRIES /\ ~NotifyReturned
        /\ pc \in {"respond", "done"} => NotifyReturned
        /\ (NotifyReturned /\ ~notify_result.success)
           => /\ posts = 5
              /\ \A i \in 1..5 : script[i] # "ok200"
              /\ Len(sleeps) = 4
              /\ notify_result.error # <<>>
              /\ DescribesCause(notify_result.error, script[5])
        /\ (NotifyReturned /\ notify_result.success) => notify_result.error = <<>>

C15_TimeoutAtLast ==
    /\ script # <<>>
    /\ pc = "done"
    /\ ~notify_result.success
    /\ script[5] = "timeout"
    /\ script[1] = "transport"

GeneratorReturned == Invoked("generate_app_code") /\ failure.stage # "generate_app_code"

\* C16: generate_app_code raises nothing for a validated request, whatever the
\* backend does: the pipeline never fails in the generating stage
C16_GenerationNeverFails == Invoked("generate_app_code") => GeneratorReturned

\* the backend the fixed priority gives for the configured keys, none without a key
Priority ==
    IF AIPIPE_API_KEY # <<>> THEN <<"aipipe">>
    ELSE IF ANTHROPIC_API_KEY # <<>> THEN <<"anthropic">>
    ELSE IF OPENAI_API_KEY # <<>> THEN <<"openai">>
    ELSE <<>>

\* no backend produced the artifact: none configured, or the one called failed
NoBackendOutput == backend_reply.kind # "ok"

\* C17: at most one backend is called, the first configured of AI Pipeline, Anthropic,
\* OpenAI; with none configured, or the called one failing or timing out, the artifact
\* is the template output: a non-empty index.html embedding the brief and a README
\* listing the checks
C17_OneBackendElseTemplate ==
    GeneratorReturned =>
        /\ backend_calls = Priority
        /\ NoBackendOutput =>
            /\ app_code = generate_template_code(gen_args.brief, gen_args.checks,
                                                 decoded_attachments(gen_args.attachments)).code
            /\ app_code.index_html # <<>>
            /\ Has(app_code.index_html, gen_args.brief.s)
            /\ Has(app_code.README_md, gen_args.brief.s)
            /\ \A i \in DOMAIN gen_args.checks :
                    Has(app_code.README_md, <<"- ">> \o gen_args.checks[i].s)

C17_BackendTimedOut ==
    /\ GeneratorReturned
    /\ backend_calls = <<"aipipe">>
    /\ backend_reply.kind = "timeout"
    /\ ANTHROPIC_API_KEY # <<>>
    /\ Len(gen_args.checks) = 2

\* the repository names create_repo was called with
CreatedNames == {create_calls[i].name : i \in DOMAIN create_calls}

\* C18: sanitize_repo_name is idempotent: sanitizing a name it returned gives that name
C18_SanitizeIdempotent ==
    \A name \in CreatedNames : \A now \in Clock : sanitize_repo_name(name, now) = name

\* a name the hosting provider accepts: characters of [A-Za-z0-9-], non-empty, no
\* hyphen at either end, at most 100 characters
ValidRepoName(name) ==
    /\ \A i \in DOMAIN name : name[i] \in AsciiAlnum \cup {"-"}
    /\ name # <<>>
    /\ name[1] # "-"
    /\ name[Len(name)] # "-"
    /\ Len(name) <= 100

\* C19: the repository name passed to the hosting provider is syntactically valid
C19_RepoNameValid == \A name \in CreatedNames : ValidRepoName(name)

\* newline, carriage return, tab: the control characters the model draws
ControlChars == {"\n", "\r", "\t"}

\* C20: the description sent with create_repo contains no control character
C20_DescriptionNoControlChars ==
    \A i \in DOMAIN create_calls :
        \A j \in DOMAIN create_calls[i].description :
            create_calls[i].description[j] \notin ControlChars

\* the working tree was committed and pushed to the repository
WasPushed == pushed.LICENSE.written

\* C21: every repository pushed by push_files_to_repo contains a non-empty
\* index.html, a default standing in for an empty index.html of the artifact
C21_IndexHtmlNeverEmpty ==
    WasPushed => pushed.index_html.written /\ pushed.index_html.content # <<>>

\* C22: the README pushed to the repository is never empty, and for an artifact
\* whose README.md is empty it is the default generate_readme builds from the
\* brief and the checks
C22_ReadmeNeverEmpty ==
    WasPushed =>
        /\ pushed.README_md.written
        /\ pushed.README_md.content # <<>>
        /\ pub_args.app_code.README_md = <<>> =>
                pushed.README_md.content = generate_readme(pub_args.brief, pub_args.checks)

\* sub stands in text at position k, counted from 1
At(text, k, sub) == k + Len(sub) - 1 <= Len(text) /\ SubSeq(text, k, k + Len(sub) - 1) = sub

\* the fence tagged html at i is the first of text and the fence at j closes it
HtmlBlock(text, i, j) ==
    /\ At(text, i, FenceHtml)
    /\ j >= i + Len(FenceHtml)
    /\ At(text, j, Fence)
    /\ \A k \in 1..(i - 1) : ~At(text, k, FenceHtml)
    /\ \A k \in (i + Len(FenceHtml))..(j - 1) : ~At(text, k, Fence)

\* the text between the opening fence at i and the closing fence at j
BlockContent(text, i, j) == SubSeq(text, i + Len(FenceHtml), j - 1)

\* generate_with_aipipe returned the artifact parsed from the backend's text
ParsedReply == backend_reply.kind = "ok" /\ GeneratorReturned

\* C23: for a response containing a fenced block tagged html with content C,
\* parse_llm_response returns index.html equal to C trimmed, with no code fence in it
C23_FencedHtmlExtracted ==
    ParsedReply =>
        \A i, j \in DOMAIN backend_reply.text :
            HtmlBlock(backend_reply.text, i, j) =>
                /\ app_code.index_html = Strip(BlockContent(backend_reply.text, i, j))
                /\ \A k \in DOMAIN app_code.index_html : ~At(app_code.index_html, k, Fence)

\* a block whose content was trimmed of a line break and is not empty
C23_TrimmedBlock ==
    /\ ParsedReply
    /\ \E i, j \in DOMAIN backend_reply.text :
        /\ HtmlBlock(backend_reply.text, i, j)
        /\ app_code.index_html # <<>>
        /\ app_code.index_html # BlockContent(backend_reply.text, i, j)

\* text holds a fenced block tagged html
HasHtmlBlock(text) == \E i, j \in DOMAIN text : HtmlBlock(text, i, j)

\* text holds a document-type declaration followed by a closing root-element tag
HasDocumentSpan(text) ==
    \E i, j \in DOMAIN text :
        At(text, i, Doctype) /\ j >= i + Len(Doctype) /\ At(text, j, CloseHtml)

\* text holds no fence tagged html, so that parse_llm_response looks for the declaration
NoHtmlFence(text) == \A k \in DOMAIN text : ~At(text, k, FenceHtml)

\* C24: with neither a fenced html block nor a complete document span in the
\* response, index.html is empty; content taken by the document-type branch starts
\* at the declaration and ends with the closing root-element tag
C24_EmptyOrDocumentSpan ==
    ParsedReply =>
        /\ ~HasHtmlBlock(backend_reply.text) /\ ~HasDocumentSpan(backend_reply.text) =>
                app_code.index_html = <<>>
        /\ NoHtmlFence(backend_reply.text) /\ app_code.index_html # <<>> =>
                /\ StartsWith(app_code.index_html, Doctype)
                /\ At(app_code.index_html,
                      Len(app_code.index_html) - Len(CloseHtml) + 1, CloseHtml)

\* the hosting token or the owning-account name is not configured
NotConfigured == GITHUB_TOKEN = <<>> \/ GITHUB_USERNAME = <<>>

\* the number of times deploy invoked stage
TimesInvoked(stage) == Cardinality({i \in DOMAIN calls : calls[i] = stage})

\* C25: without the hosting token or the account name, create_and_deploy_repo fails
\* before any call to the hosting provider, the request ends with 500, and neither
\* the publish step nor anything after it runs again
C25_NotConfiguredIsFatal ==
    Invoked("create_and_deploy_repo") /\ NotConfigured =>
        /\ create_calls = <<>> /\ repo = NoRepo
        /\ git_log = <<>> /\ pushed = NoTree
        /\ pages_calls = 0
        /\ posts = 0 /\ ~Invoked("notify_evaluation_api")
        /\ TimesInvoked("create_and_deploy_repo") = 1
        /\ pc = "done"
        /\ response.code = 500
        /\ failure.stage = "create_and_deploy_repo" /\ failure.exc = "ValueError"

\* the token is configured and the account name is not
C25_UsernameMissing ==
    /\ pc = "done"
    /\ Invoked("create_and_deploy_repo")
    /\ GITHUB_TOKEN # <<>> /\ GITHUB_USERNAME = <<>>
    /\ response.body.message = <<"GITHUB_USERNAME not configured">>

\* C26: whatever the pages request is answered (201, 204, 409, another status, a
\* raised transport error), enable_github_pages returns without failing the publish,
\* and the site URL is the one computed from the account name and the repository name
C26_PagesNeverFails ==
    pages_reply # NoPagesReply =>
        /\ pages_reply \in PagesReplies
        /\ failure = NoFailure
        /\ repo_info.pages_url = PagesUrl(GITHUB_USERNAME, repo.name)
        /\ repo_info.pages_url =
                <<"https://">> \o GITHUB_USERNAME \o <<".github.io/">> \o repo.name \o <<"/">>

\* the pages request raised a transport error and the request still ended with 200
C26_PagesRequestRaised ==
    /\ pc = "done"
    /\ pages_reply = 0
    /\ response.code = 200
    /\ response.body.pages_url = PagesUrl(GITHUB_USERNAME, repo.name)

\* C27: the working trees on disk are those of the requests inside
\* push_files_to_repo, one each and never the same for two requests; once
\* create_and_deploy_repo returned or raised, the request's working tree is gone
C27_WorkingTreeRemoved ==
    /\ trees = {temp_dir, peer.temp_dir} \ {<<>>}
    /\ pc # "git" => temp_dir = <<>>
    /\ peer.pc # "git" => peer.temp_dir = <<>>
    /\ pc = "git" /\ peer.pc = "git" => temp_dir # peer.temp_dir

\* the clone failed for the request while the other request was inside
\* push_files_to_repo, and both have ended
C27_CloneFailed ==
    /\ pc = "done"
    /\ git_log = <<"clone">>
    /\ failure.exc = "CalledProcessError"
    /\ peer.pc = "done"
    /\ peer.code = 200
    /\ trees = {}

\* the notifier or the final response holds a publish result
HoldsPublishResult == notify_args # NoNotifyArgs \/ "repo_url" \in response.body.keys

\* C28: whenever the notifier or the final response holds a publish result, the
\* repository was created, every git step up to the push and the reading of the
\* commit succeeded, and repo_url, commit_sha and pages_url of the result are all
\* set; what the notifier and the response hold are copies of its fields
C28_ResultOnlyAfterPush ==
    HoldsPublishResult =>
        /\ repo # NoRepo /\ repo.name \in hosted
        /\ git_log = GitSteps
        /\ WasPushed
        /\ repo_info.repo_url # <<>>
        /\ repo_info.commit_sha \in Shas
        /\ repo_info.pages_url # <<>>
        /\ notify_args # NoNotifyArgs =>
                /\ notify_args.repo_url = repo_info.repo_url
                /\ notify_args.commit_sha = repo_info.commit_sha
                /\ notify_args.pages_url = repo_info.pages_url
        /\ "repo_url" \in response.body.keys =>
                /\ response.body.repo_url = repo_info.repo_url
                /\ response.body.pages_url = repo_info.pages_url
                /\ "commit_sha" \in response.body.keys =>
                        response.body.commit_sha = repo_info.commit_sha

\* the request ended with the publish result in the response and in the notifier
C28_ResultDelivered ==
    /\ pc = "done"
    /\ response.code = 200
    /\ response.body.commit_sha \in Shas
    /\ notify_args.commit_sha = response.body.commit_sha

\* C29: every request deploy received ends with a response, also when an
\* external dependency stalls
C29_EveryRequestAnswered == (pc = "generate") ~> (pc = "done")

\* C30: two requests handled concurrently ask the hosting provider for
\* repositories of different names, whatever their tasks
C30_OwnRepository ==
    create_calls # <<>> /\ peer.requested # <<>> =>
        \A i \in DOMAIN create_calls : create_calls[i].name # peer.requested

\* C31: an exception raised in any stage of deploy is caught by its except clause
\* and answered with 500 and the exception's text; deploy answers once, when it
\* ends, with status 200, 400, 403 or 500
C31_FaultsCaughtOnce ==
    /\ failure # NoFailure =>
            /\ pc = "done"
            /\ response.code = 500
            /\ response.body.keys = {"error", "message"}
            /\ response.body.error = <<"Internal server error">>
            /\ response.body.message = failure.text
    /\ pc = "done" => response.code \in {200, 400, 403, 500}
    /\ pc # "done" => response = NoResponse

\* validate_request itself raised and the request was answered with 500
C31_ValidationFault ==
    /\ pc = "done"
    /\ failure.stage = "validate_request"
    /\ failure.exc = "TypeError"
    /\ response.code = 500

\* C32: every notification attempt of the request posts to its evaluation_url the
\* same JSON body: email, task, round and nonce of the request, and repo_url,
\* commit_sha and pages_url of the publish result
C32_SameBodyEveryAttempt ==
    /\ Len(sent) = posts
    /\ \A i \in DOMAIN sent :
        /\ sent[i].url = payload.d["evaluation_url"]
        /\ sent[i].json.email = payload.d["email"]
        /\ sent[i].json.task = payload.d["task"]
        /\ sent[i].json.round = payload.d["round"]
        /\ sent[i].json.nonce = payload.d["nonce"]
        /\ sent[i].json.repo_url = repo_info.repo_url
        /\ sent[i].json.commit_sha = repo_info.commit_sha
        /\ sent[i].json.pages_url = repo_info.pages_url
        /\ sent[i] = sent[1]

\* the fifth attempt was the first to succeed
C32_FiveAttemptsSent ==
    /\ pc = "done"
    /\ Len(sent) = MAX_RETRIES
    /\ notify_result.success

\* what follows the first comma of a data: URI
EncodedPart(url) == Slice(url, Find(url, <<",">>, 0) + 1, Len(url))

\* the url is not a data: URI, or its payload cannot be decoded
Undecodable(att) ==
    \/ ~IsStr(att.d["url"])
    \/ ~StartsWith(att.d["url"].s, <<"d", "a", "t", "a", ":">>)
    \/ ~Has(att.d["url"].s, <<",">>)
    \/ ~B64Ok(EncodedPart(att.d["url"].s))
    \/ /\ StartsWith(att.d["url"].s, <<"d", "a", "t", "a", ":", "t", "e", "x", "t", "/">>)
       /\ ~Utf8Ok(EncodedPart(att.d["url"].s))

Decodable(attachments) == SelectSeq(attachments, LAMBDA a : ~Undecodable(a))

KeptAre(decoded, attachments) ==
    /\ Len(decoded) = Len(attachments)
    /\ \A i \in DOMAIN decoded :
            decoded[i].some /\ decoded[i].name = attachments[i].d["name"]

\* C33: generation keeps exactly the attachments that are data: URIs with a
\* decodable payload, in the order of the request, and it fails only when it
\* would fail without any attachment
C33_UndecodableDropped ==
    TimesInvoked("generate_app_code") > 0 =>
        /\ KeptAre(dec_atts, Decodable(gen_args.attachments))
        /\ failure.stage = "generate_app_code" =>
                generate_app_code(gen_args.brief, gen_args.checks, <<>>, AIPIPE_API_KEY,
                                  ANTHROPIC_API_KEY, OPENAI_API_KEY, backend_reply).exc # ""

\* generation returned code for a request of three attachments of different names,
\* the second a data: URI whose payload is not base64: the first and the third were
\* kept, in that order
C33_UndecodableThenDecodable ==
    /\ pc = "publish"
    /\ Len(gen_args.attachments) = 3
    /\ StartsWith(gen_args.attachments[2].d["url"].s, <<"d", "a", "t", "a", ":">>)
    /\ Undecodable(gen_args.attachments[2])
    /\ Len(dec_atts) = 2
    /\ dec_atts[1].name = gen_args.attachments[1].d["name"]
    /\ dec_atts[2].name = gen_args.attachments[3].d["name"]
    /\ dec_atts[1].name # dec_atts[2].name

\* the name of the latest create_repo call of the request
LastRequested(log) == log[Len(log)].name

\* C34: no step removes a hosted repository, a failed push included; and once a
\* name is hosted, a request that asks the provider for that name ends at
\* provisioning with 500 and has sent no notification, now or later
C34_NoRollback ==
    /\ [][hosted \subseteq hosted']_vars
    /\ [][(create_calls' # create_calls /\ LastRequested(create_calls') \in hosted) =>
            /\ pc' = "done"
            /\ response'.code = 500
            /\ failure'.stage = "create_and_deploy_repo"
            /\ repo' = NoRepo
            /\ posts' = 0]_vars
    /\ [][(peer.pc = "publish" /\ peer'.pc # "publish" /\ peer'.requested \in hosted) =>
            /\ peer'.pc = "done"
            /\ peer'.code = 500]_vars
    /\ [](pc = "done" /\ repo = NoRepo => posts = 0 /\ notify_args = NoNotifyArgs)
    /\ [](peer.pc = "done" /\ peer.repo # <<>> => peer.repo \in hosted /\ peer.temp_dir = <<>>)

\* the other request created its repository and failed in a git step; the request,
\* asking for the same name, failed at provisioning and notified nobody
C34_LaterRequestRejected ==
    /\ peer.pc = "done"
    /\ peer.code = 500
    /\ peer.repo # <<>>
    /\ pc = "done"
    /\ response.code = 500
    /\ failure.stage = "create_and_deploy_repo"
    /\ repo = NoRepo
    /\ LastRequested(create_calls) = peer.repo
    /\ posts = 0

====
